---- MODULE Spec2Model ----
(***************************************************************************)
(* A state-machine model of the PBS relay subsystem of the miner package:  *)
(* the relay registry (ClientMapping), the validator-registration          *)
(* broadcaster (Miner.registerValidator, Miner.AddRelay), the update loop  *)
(* (Miner.update) and the proposal pipeline (Miner.ProposedBlock).         *)
(***************************************************************************)
EXTENDS Integers, Sequences, FiniteSets, TLC

\* ------------------------------------------------------------------ bounds

\* relay connection strings handed to the registry
Endpoints == {"r1", "r2"}
\* concurrent callers of the registry (RPC handlers)
Threads == {"t1", "t2"}
\* the goroutine running Miner.update
Updater == "update"
Procs == Threads \cup {Updater}
\* longest MEVRelays / MevRelaysGRPC list of the configuration
MaxCfgLen == 2

CfgLists == UNION {[1..n -> Endpoints] : n \in 0..MaxCfgLen}

\* ------------------------------------------------------------------ state

VARIABLES
    constructed,    \* NewClientMap has run
    clientMap,      \* ClientMapping.clientMap: endpoint -> *rpc.Client
    clientGrpcMap,  \* ClientMapping.clientGrpcMap: endpoint -> pb.ProposerClient
    mxW,            \* ClientMapping.mx: the holder of the write lock, or NoProc
    mxR,            \* ClientMapping.mx: the holders of the read lock
    pc,             \* each process's position
    arg,            \* each process's current call: its relay / pool argument
    snap,           \* each process's local map in Mapping / MappingGRPC
    ref,            \* what the map value returned to a process refers to
    ret,            \* the last completed call and its result, until a caller starts another
    member,         \* history: per pool, the endpoints whose last successful op is an add
    hist,           \* history: the last successful Add and a Remove directly after it
    seen,           \* history: the live map's values while a process copies it
    proposedBlockGrpcUri,  \* Miner.proposedBlockGrpcUri: "" when not configured
    shouldStart,    \* Miner.update: mining is to resume after a sync
    canStart,       \* Miner.update: no sync is running
    dlEventCh,      \* Miner.update: the downloader subscription: open, closed or nil
    mining,         \* the worker is running (Miner.Mining)
    headNumber,     \* the number of the chain's current block
    bcasts,         \* history: the broadcasts started, with what each observed
    tasks,          \* the goroutines spawned by broadcasts that have not called yet
    calls,          \* history: the registration calls issued by broadcast goroutines
    nCalls,         \* the relay management calls started while the update loop runs
    lastEv,         \* history: the last event the update loop handled
    evTick,         \* history: flips with every event the update loop handles
    now,            \* the wall clock, time.Now()
    currentBlockTime,   \* BlockChain().CurrentBlock().Time()
    currentGasLimit,    \* worker.currentGasLimit
    prevBlockGasLimit,  \* worker.prevBlockGasLimit
    proposedCh,     \* worker.proposedCh: the envelopes pushed and not yet drained
    prop,           \* each ProposedBlock call: its position, arguments and locals
    bid,            \* the PublicBuilderAPI.Bid call: its position, arguments and locals
    api,            \* the gRPC API: NewAPI's arguments and its authHeader
    grpcCall        \* the gRPC call: its position, metadata, request and result

regVars == <<constructed, clientMap, clientGrpcMap, mxW, mxR, pc, arg, snap, ref,
             ret, member, hist, seen>>

bcVars == <<proposedBlockGrpcUri, shouldStart, canStart, dlEventCh, mining,
            headNumber, bcasts, tasks, calls, lastEv, evTick, nCalls>>

propVars == <<now, currentBlockTime, currentGasLimit, prevBlockGasLimit, proposedCh,
              prop>>

ingVars == <<bid, api, grpcCall>>

vars == <<regVars, bcVars, propVars, ingVars>>

NoProc == "none"
Pools == {"rpc", "grpc"}

\* ------------------------------------------------------------ Go map values

\* a connected client handle: the connection to the endpoint it was dialed to
Client(relay) == [dest |-> relay]

\* make(ClientMap)
EmptyMap == [e \in {} |-> Client("")]

\* the keys of a map
Keys(m) == DOMAIN m

\* len(m)
len(m) == Cardinality(DOMAIN m)

\* m[k] = v
Put(m, k, v) == [e \in (DOMAIN m) \cup {k} |-> IF e = k THEN v ELSE m[e]]

delete_Noop(m, k) == m

\* delete(m, k)
delete(m, k) == [e \in (DOMAIN m) \ {k} |-> m[e]]

\* the live map of a pool
Live(pool) == IF pool = "rpc" THEN clientMap ELSE clientGrpcMap

\* ------------------------------------------------------------ sync.RWMutex

\* c.mx.Lock() can return: no writer and no reader holds the lock
CanLock == mxW = NoProc /\ mxR = {}

\* c.mx.RLock() can return: no writer holds the lock
CanRLock == mxW = NoProc

RLock_Skipped(p) == mxR

\* the readers after c.mx.RLock() by p
RLock(p) == mxR \cup {p}

\* ------------------------------------------------------------ history

NoFailed == [rpc |-> {}, grpc |-> {}]
NoRet == [op |-> "", relay |-> "", err |-> "", n |-> 0, failed |-> NoFailed,
          called |-> <<>>]
NoHist == [kind |-> "none", pool |-> "", relay |-> "", before |-> 0,
           present |-> FALSE, after |-> 0]

\* the record of a completed call: its name, its relay argument, the error it
\* returned, the number it returned, the endpoints it had a failed dial for, and
\* the registration calls it made itself
Returned(op, relay, err, n) ==
    [op |-> op, relay |-> relay, err |-> err, n |-> n, failed |-> NoFailed,
     called |-> <<>>]

\* hist after a successful add of relay to pool, whose map was m before
HistAdd(pool, relay, m) ==
    [kind |-> "add", pool |-> pool, relay |-> relay, before |-> len(m),
     present |-> relay \in Keys(m), after |-> 0]

\* hist after a successful remove of relay from pool, whose map is m afterwards
HistRemove(pool, relay, m) ==
    IF hist.kind = "add" /\ hist.pool = pool /\ hist.relay = relay
    THEN [hist EXCEPT !.kind = "pair", !.after = len(m)]
    ELSE NoHist

\* seen after pool's live map became m
SeenWrite(pool, m) ==
    [p \in Procs |-> IF pc[p] = "M_copy" /\ arg[p] = pool
                     THEN seen[p] \cup {m} ELSE seen[p]]

\* ------------------------------------------------------------ NewClientMap

RECURSIVE DialAll(_, _, _, _)
\* the map after dialing list[i], list[i+1], ... in order into m; oks[i] is
\* whether the i-th dial succeeds; a failed dial is logged and skipped
DialAll(list, oks, i, m) ==
    IF i > Len(list) THEN m
    ELSE DialAll(list, oks, i + 1,
                 IF oks[i] THEN Put(m, list[i], Client(list[i])) ELSE m)

\* the endpoints of list whose dial, at some position, had outcome b
Dialed(list, oks, b) == {list[i] : i \in {j \in 1..Len(list) : oks[j] = b}}

NewClientMap ==
    /\ ~constructed
    /\ \E relays \in CfgLists, relaysGRPC \in CfgLists :
       \E oks \in [1..Len(relays) -> BOOLEAN],
          oksG \in [1..Len(relaysGRPC) -> BOOLEAN] :
            /\ clientGrpcMap' = DialAll(relaysGRPC, oksG, 1, EmptyMap)
            /\ clientMap' = DialAll(relays, oks, 1, EmptyMap)
            /\ ret' = [Returned("NewClientMap", "", "nil", 0) EXCEPT
                          !.failed = [rpc |-> Dialed(relays, oks, FALSE),
                                      grpc |-> Dialed(relaysGRPC, oksG, FALSE)]]
            /\ member' = [rpc |-> Dialed(relays, oks, TRUE),
                          grpc |-> Dialed(relaysGRPC, oksG, TRUE)]
    /\ constructed' = TRUE
    /\ UNCHANGED <<mxW, mxR, pc, arg, snap, ref, hist, seen>>

\* ------------------------------------------------------------ Add / Remove

\* a process enters a write operation: it returns from c.mx.Lock()
WriteLock(t, op, relay) ==
    /\ constructed
    /\ pc[t] = "idle"
    /\ CanLock
    /\ mxW' = t
    /\ pc' = [pc EXCEPT ![t] = op]
    /\ arg' = [arg EXCEPT ![t] = relay]
    /\ ret' = NoRet
    /\ UNCHANGED <<constructed, clientMap, clientGrpcMap, mxR, snap, ref, member,
                   hist, seen>>

AddLock(t, relay) == WriteLock(t, "Add", relay)
RemoveLock(t, relay) == WriteLock(t, "Remove", relay)
AddGrpcLock(t, relay) == WriteLock(t, "AddGrpc", relay)
RemoveGrpcLock(t, relay) == WriteLock(t, "RemoveGrpc", relay)

\* the error Add / AddGrpc return for a dial outcome
DialErr(ok) == IF ok THEN "nil" ELSE "dial"

AddWrite_OnDialError(m, relay, ok) == Put(m, relay, Client(IF ok THEN relay ELSE ""))

\* the map Add / AddGrpc leaves: the dialed client stored, or on a dial error nothing
AddWrite(m, relay, ok) == IF ok THEN Put(m, relay, Client(relay)) ELSE m

\* Add from the position `from`, under the write lock: dial, store, unlock,
\* return; a caller that goes on after a successful Add continues at onOk
AddBody(t, from, onOk) ==
    /\ pc[t] = from
    /\ \E ok \in BOOLEAN :
        /\ clientMap' = AddWrite(clientMap, arg[t], ok)
        /\ ret' = [Returned(IF ok /\ onOk # "idle" THEN "Add" ELSE from, arg[t],
                            DialErr(ok), 0) EXCEPT
                      !.failed.rpc = IF ok THEN {} ELSE {arg[t]}]
        /\ member' = IF ok THEN [member EXCEPT !.rpc = @ \cup {arg[t]}] ELSE member
        /\ hist' = IF ok THEN HistAdd("rpc", arg[t], clientMap) ELSE NoHist
        /\ pc' = [pc EXCEPT ![t] = IF ok THEN onOk ELSE "idle"]
        /\ arg' = [arg EXCEPT ![t] = IF ok /\ onOk # "idle" THEN @ ELSE ""]
    /\ seen' = SeenWrite("rpc", clientMap')
    /\ mxW' = NoProc
    /\ UNCHANGED <<constructed, clientGrpcMap, mxR, snap, ref>>

\* the rest of Add, under the write lock
Add(t) == AddBody(t, "Add", "idle")

\* the rest of Remove, under the write lock
Remove(t) ==
    /\ pc[t] = "Remove"
    /\ IF arg[t] \notin Keys(clientMap)
       THEN /\ ret' = Returned("Remove", arg[t], "not found", 0)
            /\ hist' = NoHist
            /\ UNCHANGED <<clientMap, member>>
       ELSE /\ clientMap' = delete(clientMap, arg[t])
            /\ ret' = Returned("Remove", arg[t], "nil", 0)
            /\ member' = [member EXCEPT !.rpc = @ \ {arg[t]}]
            /\ hist' = HistRemove("rpc", arg[t], clientMap')
    /\ seen' = SeenWrite("rpc", clientMap')
    /\ mxW' = NoProc
    /\ pc' = [pc EXCEPT ![t] = "idle"]
    /\ arg' = [arg EXCEPT ![t] = ""]
    /\ UNCHANGED <<constructed, clientGrpcMap, mxR, snap, ref>>

\* the rest of AddGrpc, under the write lock
AddGrpc(t) ==
    /\ pc[t] = "AddGrpc"
    /\ \E ok \in BOOLEAN :
        /\ clientGrpcMap' = AddWrite(clientGrpcMap, arg[t], ok)
        /\ ret' = [Returned("AddGrpc", arg[t], DialErr(ok), 0) EXCEPT
                      !.failed.grpc = IF ok THEN {} ELSE {arg[t]}]
        /\ member' = IF ok THEN [member EXCEPT !.grpc = @ \cup {arg[t]}] ELSE member
        /\ hist' = IF ok THEN HistAdd("grpc", arg[t], clientGrpcMap) ELSE NoHist
    /\ seen' = SeenWrite("grpc", clientGrpcMap')
    /\ mxW' = NoProc
    /\ pc' = [pc EXCEPT ![t] = "idle"]
    /\ arg' = [arg EXCEPT ![t] = ""]
    /\ UNCHANGED <<constructed, clientMap, mxR, snap, ref>>

\* the rest of RemoveGrpc, under the write lock
RemoveGrpc(t) ==
    /\ pc[t] = "RemoveGrpc"
    /\ IF arg[t] \notin Keys(clientGrpcMap)
       THEN /\ ret' = Returned("RemoveGrpc", arg[t], "not found", 0)
            /\ hist' = NoHist
            /\ UNCHANGED <<clientGrpcMap, member>>
       ELSE /\ clientGrpcMap' = delete(clientGrpcMap, arg[t])
            /\ ret' = Returned("RemoveGrpc", arg[t], "nil", 0)
            /\ member' = [member EXCEPT !.grpc = @ \ {arg[t]}]
            /\ hist' = HistRemove("grpc", arg[t], clientGrpcMap')
    /\ seen' = SeenWrite("grpc", clientGrpcMap')
    /\ mxW' = NoProc
    /\ pc' = [pc EXCEPT ![t] = "idle"]
    /\ arg' = [arg EXCEPT ![t] = ""]
    /\ UNCHANGED <<constructed, clientMap, mxR, snap, ref>>

\* ------------------------------------------------------------ Len / Get

LenGRPC_OfLegacy == len(clientMap)

\* what Len returns
LenResult == len(clientMap)

\* what LenGRPC returns
LenGRPCResult == len(clientGrpcMap)

\* a read that holds the read lock for one map access
ReadCall(t, op, relay, err, n) ==
    /\ constructed
    /\ pc[t] = "idle"
    /\ CanRLock
    /\ ret' = Returned(op, relay, err, n)
    /\ UNCHANGED <<constructed, clientMap, clientGrpcMap, mxW, mxR, pc, arg, snap,
                   ref, member, hist, seen>>

\* ClientMapping.Len (Len names the length of a sequence here)
LenCall(t) == ReadCall(t, "Len", "", "nil", LenResult)

LenGRPC(t) == ReadCall(t, "LenGRPC", "", "nil", LenGRPCResult)

Get(t, relay) ==
    ReadCall(t, "Get", relay, IF relay \in Keys(clientMap) THEN "ok" ELSE "absent", 0)

GetGRPC(t, relay) ==
    ReadCall(t, "GetGRPC", relay,
             IF relay \in Keys(clientGrpcMap) THEN "ok" ELSE "absent", 0)

\* ------------------------------------------------------------ Mapping

\* make(ClientMap, len(c.clientMap)): the size hint is read without the lock
MappingMake(p, pool, from) ==
    /\ constructed
    /\ pc[p] = from
    /\ pc' = [pc EXCEPT ![p] = "M_rlock"]
    /\ arg' = [arg EXCEPT ![p] = pool]
    /\ snap' = [snap EXCEPT ![p] = EmptyMap]
    /\ ret' = IF from = "idle" THEN NoRet ELSE ret
    /\ UNCHANGED <<constructed, clientMap, clientGrpcMap, mxW, mxR, ref, member,
                   hist, seen>>

\* c.mx.RLock()
MappingRLock(p) ==
    /\ pc[p] = "M_rlock"
    /\ CanRLock
    /\ mxR' = RLock(p)
    /\ pc' = [pc EXCEPT ![p] = "M_copy"]
    /\ seen' = [seen EXCEPT ![p] = {Live(arg[p])}]
    /\ UNCHANGED <<constructed, clientMap, clientGrpcMap, mxW, arg, snap, ref, ret,
                   member, hist>>

\* one iteration of the range loop: a key of the live map not yet visited
MappingCopy(p) ==
    /\ pc[p] = "M_copy"
    /\ \E k \in Keys(Live(arg[p])) \ Keys(snap[p]) :
        snap' = [snap EXCEPT ![p] = Put(@, k, Live(arg[p])[k])]
    /\ UNCHANGED <<constructed, clientMap, clientGrpcMap, mxW, mxR, pc, arg, ref,
                   ret, member, hist, seen>>

\* what the returned map value refers to: the copy made by the call
Result == "copy"

\* the range loop ends; c.mx.RUnlock(); return clientMap
MappingReturn(p, next) ==
    /\ pc[p] = "M_copy"
    /\ Keys(Live(arg[p])) \ Keys(snap[p]) = {}
    /\ mxR' = mxR \ {p}
    /\ ref' = [ref EXCEPT ![p] = Result]
    /\ pc' = [pc EXCEPT ![p] = next]
    /\ UNCHANGED <<constructed, clientMap, clientGrpcMap, mxW, arg, snap, ret,
                   member, hist, seen>>

\* the map a process sees through the value Mapping returned to it
Deref(p) == IF ref[p] = "live" THEN Live(arg[p]) ELSE snap[p]

\* the process is done with the map value it was handed
Release(p, next) ==
    /\ pc' = [pc EXCEPT ![p] = next]
    /\ arg' = [arg EXCEPT ![p] = ""]
    /\ snap' = [snap EXCEPT ![p] = EmptyMap]
    /\ ref' = [ref EXCEPT ![p] = "copy"]
    /\ seen' = [seen EXCEPT ![p] = {}]

\* a caller writes to (or deletes from) the map value it was handed, and is
\* done with it
SnapshotMutate(p) ==
    /\ pc[p] = "M_held"
    /\ \E k \in Endpoints, put \in BOOLEAN :
        LET m == IF put THEN Put(Deref(p), k, Client("")) ELSE delete(Deref(p), k) IN
        /\ m # Deref(p)
        /\ IF ref[p] = "live"
           THEN IF arg[p] = "rpc"
                THEN clientMap' = m /\ UNCHANGED clientGrpcMap
                ELSE clientGrpcMap' = m /\ UNCHANGED clientMap
           ELSE UNCHANGED <<clientMap, clientGrpcMap>>
    /\ Release(p, "idle")
    /\ UNCHANGED <<constructed, mxW, mxR, ret, member, hist>>

\* a caller is done with the map value without having written to it
SnapshotDrop(p) ==
    /\ pc[p] = "M_held"
    /\ Release(p, "idle")
    /\ UNCHANGED <<constructed, clientMap, clientGrpcMap, mxW, mxR, ret, member,
                   hist>>

\* ------------------------------------------------------------ registration

\* the chain's epoch length, params.BSCChainConfig.Parlia.Epoch, scaled down
Epoch == 2
\* the last block number the chain-head feed reports
MaxBlock == 2

NoEv == [kind |-> "", n |-> 0]

\* a gRPC relay is registered and a gRPC callback URI is configured, now
GrpcActive == proposedBlockGrpcUri # "" /\ len(clientGrpcMap) # 0

\* the index of the broadcast the update loop is running
Cur == Len(bcasts)

\* the update loop starts a broadcast: it calls registerValidator
BeginRegisterValidator(trigger) ==
    /\ bcasts' = Append(bcasts, [trigger |-> trigger, lenGrpc |-> -1, pool |-> "",
                                 ranged |-> FALSE, keys |-> {}, iter |-> {}])
    /\ pc' = [pc EXCEPT ![Updater] = "rv_check"]

\* update, line 293: the miner may have started in the middle of an epoch
Startup ==
    /\ constructed
    /\ pc[Updater] = "start"
    /\ BeginRegisterValidator("startup")
    /\ UNCHANGED <<constructed, clientMap, clientGrpcMap, mxW, mxR, arg, snap, ref,
                   ret, member, hist, seen>>
    /\ UNCHANGED <<proposedBlockGrpcUri, shouldStart, canStart, dlEventCh, mining,
                   headNumber, tasks, calls, lastEv, evTick, nCalls>>

UseGRPC_Inverted(uri, n) == uri # "" /\ n = 0

\* registerValidator's choice of transport
UseGRPC(uri, n) == uri # "" /\ n # 0

\* registerValidator, line 537: LenGRPC is called only when the URI is set
RegisterValidatorCheck ==
    /\ pc[Updater] = "rv_check"
    /\ proposedBlockGrpcUri # "" => CanRLock
    /\ LET n == IF proposedBlockGrpcUri # "" THEN LenGRPCResult ELSE -1
           pool == IF UseGRPC(proposedBlockGrpcUri, n) THEN "grpc" ELSE "rpc" IN
        /\ bcasts' = [bcasts EXCEPT ![Cur].lenGrpc = n, ![Cur].pool = pool]
        /\ arg' = [arg EXCEPT ![Updater] = pool]
    /\ pc' = [pc EXCEPT ![Updater] = "rv_make"]
    /\ UNCHANGED <<constructed, clientMap, clientGrpcMap, mxW, mxR, snap, ref, ret,
                   member, hist, seen>>
    /\ UNCHANGED <<proposedBlockGrpcUri, shouldStart, canStart, dlEventCh, mining,
                   headNumber, tasks, calls, lastEv, evTick, nCalls>>

\* the range loop over the returned map starts
RegisterValidatorRange ==
    /\ pc[Updater] = "rv_range"
    /\ bcasts' = [bcasts EXCEPT ![Cur].ranged = TRUE,
                                ![Cur].keys = Keys(Deref(Updater)),
                                ![Cur].iter = Keys(Deref(Updater))]
    /\ pc' = [pc EXCEPT ![Updater] = "rv_go"]
    /\ UNCHANGED <<constructed, clientMap, clientGrpcMap, mxW, mxR, arg, snap, ref,
                   ret, member, hist, seen>>
    /\ UNCHANGED <<proposedBlockGrpcUri, shouldStart, canStart, dlEventCh, mining,
                   headNumber, tasks, calls, lastEv, evTick, nCalls>>

\* the transport of the goroutines a broadcast over pool spawns
Proto(pool) == pool

\* one iteration of the range loop: go func(dest, destClient, args)
RegisterValidatorGo ==
    /\ pc[Updater] = "rv_go"
    /\ \E k \in bcasts[Cur].iter :
        /\ tasks' = tasks \cup {[b |-> Cur, proto |-> Proto(arg[Updater]),
                                 dest |-> Deref(Updater)[k].dest]}
        /\ bcasts' = [bcasts EXCEPT ![Cur].iter = @ \ {k}]
    /\ UNCHANGED <<regVars, proposedBlockGrpcUri, shouldStart, canStart, dlEventCh,
                   mining, headNumber, calls, lastEv, evTick, nCalls>>

\* the range loop ends: registerValidator returns to the update loop
RegisterValidatorReturn ==
    /\ pc[Updater] = "rv_go"
    /\ bcasts[Cur].iter = {}
    /\ Release(Updater, "loop")
    /\ UNCHANGED <<constructed, clientMap, clientGrpcMap, mxW, mxR, ret, member,
                   hist>>
    /\ UNCHANGED bcVars

BagAdd(bag, x) ==
    [y \in (DOMAIN bag) \cup {x} |->
        IF y = x THEN (IF x \in DOMAIN bag THEN bag[x] + 1 ELSE 1) ELSE bag[y]]

TasksAfterCall_AbortOnError(tk, ok) ==
    IF ok THEN tasks \ {tk} ELSE {x \in tasks : x.b # tk.b}

\* the goroutines left after tk's call returned: its error is only logged
TasksAfterCall(tk, ok) == tasks \ {tk}

\* a broadcast goroutine issues its registration call, which succeeds or fails
RegisterCall(tk) ==
    /\ tk \in tasks
    /\ \E ok \in BOOLEAN :
        /\ tasks' = TasksAfterCall(tk, ok)
        /\ calls' = BagAdd(calls, [b |-> tk.b, proto |-> tk.proto, dest |-> tk.dest,
                                   ok |-> ok])
    /\ UNCHANGED <<regVars, proposedBlockGrpcUri, shouldStart, canStart, dlEventCh,
                   mining, headNumber, bcasts, lastEv, evTick, nCalls>>

\* ------------------------------------------------------------ AddRelay

AddRelayLock(t, relay) == WriteLock(t, "AddRelay", relay)

\* AddRelay, lines 587-590: miner.mevRelays.Add(relay)
AddRelayAdd(t) == AddBody(t, "AddRelay", "AddRelay_call")

CallErr_Swallowed(ok) == "nil"

\* the error AddRelay returns for the outcome of its registration call
CallErr(ok) == IF ok THEN "nil" ELSE "call"

PoolAfterCall_RolledBack(m, relay, ok) == IF ok THEN m ELSE delete(m, relay)

\* AddRelay, lines 603-612: whatever the call returns, the pool is left as Add
\* left it; on an error AddRelay logs and returns the error
PoolAfterCall(m, relay, ok) == m

\* AddRelay, lines 592-612: the synchronous eth_registerValidator call through
\* the client Add returned
AddRelayCall(t) ==
    /\ pc[t] = "AddRelay_call"
    /\ LET client == Client(arg[t]) IN
       \E ok \in BOOLEAN :
        /\ ret' = [Returned("AddRelay", arg[t], CallErr(ok), 0) EXCEPT
                      !.called = <<[dest |-> client.dest, ok |-> ok]>>]
        /\ clientMap' = PoolAfterCall(clientMap, arg[t], ok)
    /\ pc' = [pc EXCEPT ![t] = "idle"]
    /\ arg' = [arg EXCEPT ![t] = ""]
    /\ UNCHANGED <<constructed, clientGrpcMap, mxW, mxR, snap, ref,
                   member, hist, seen>>
    /\ UNCHANGED <<proposedBlockGrpcUri, shouldStart, canStart, dlEventCh, mining,
                   headNumber, bcasts, tasks, calls, lastEv, evTick, nCalls>>

\* RemoveRelay is Remove
RemoveRelayLock(t, relay) == RemoveLock(t, relay)

\* ------------------------------------------------------------ update loop

\* the update loop handled the event ev
Handled(kind, n) ==
    /\ lastEv' = [kind |-> kind, n |-> n]
    /\ evTick' = ~evTick

InLoop == pc[Updater] = "loop"

\* case ev := <-dlEventCh, ev == nil: the subscription is closed
DownloaderNil ==
    /\ InLoop
    /\ dlEventCh = "closed"
    /\ dlEventCh' = "nil"
    /\ Handled("nil", 0)
    /\ UNCHANGED <<regVars, proposedBlockGrpcUri, shouldStart, canStart, mining,
                   headNumber, bcasts, tasks, calls, nCalls>>

\* case downloader.StartEvent
DownloaderStart ==
    /\ InLoop
    /\ dlEventCh = "open"
    /\ mining' = FALSE
    /\ canStart' = FALSE
    /\ shouldStart' = (mining \/ shouldStart)
    /\ Handled("StartEvent", 0)
    /\ UNCHANGED <<regVars, proposedBlockGrpcUri, dlEventCh, headNumber, bcasts,
                   tasks, calls, nCalls>>

\* case downloader.FailedEvent
DownloaderFailed ==
    /\ InLoop
    /\ dlEventCh = "open"
    /\ canStart' = TRUE
    /\ mining' = (mining \/ shouldStart)
    /\ Handled("FailedEvent", 0)
    /\ UNCHANGED <<regVars, proposedBlockGrpcUri, shouldStart, dlEventCh,
                   headNumber, bcasts, tasks, calls, nCalls>>

\* case downloader.DoneEvent: as FailedEvent, then events.Unsubscribe()
DownloaderDone ==
    /\ InLoop
    /\ dlEventCh = "open"
    /\ canStart' = TRUE
    /\ mining' = (mining \/ shouldStart)
    /\ dlEventCh' = "closed"
    /\ Handled("DoneEvent", 0)
    /\ UNCHANGED <<regVars, proposedBlockGrpcUri, shouldStart, headNumber, bcasts,
                   tasks, calls, nCalls>>

\* case addr := <-miner.startCh
StartCh ==
    /\ InLoop
    /\ mining' = (mining \/ canStart)
    /\ shouldStart' = TRUE
    /\ Handled("start", 0)
    /\ UNCHANGED <<regVars, proposedBlockGrpcUri, canStart, dlEventCh, headNumber,
                   bcasts, tasks, calls, nCalls>>

\* case <-miner.stopCh
StopCh ==
    /\ InLoop
    /\ shouldStart' = FALSE
    /\ mining' = FALSE
    /\ Handled("stop", 0)
    /\ UNCHANGED <<regVars, proposedBlockGrpcUri, canStart, dlEventCh, headNumber,
                   bcasts, tasks, calls, nCalls>>

IsEpoch_OffByOne(n) == n % Epoch = 1

\* block.Block.NumberU64() % params.BSCChainConfig.Parlia.Epoch == 0
IsEpoch(n) == n % Epoch = 0

\* case block := <-chainBlockCh: the feed reports the chain's next block
ChainBlock ==
    /\ InLoop
    /\ headNumber < MaxBlock
    /\ headNumber' = headNumber + 1
    /\ Handled("chainBlock", headNumber + 1)
    /\ IF IsEpoch(headNumber + 1)
       THEN BeginRegisterValidator("epoch")
       ELSE UNCHANGED <<bcasts, pc>>
    /\ UNCHANGED <<constructed, clientMap, clientGrpcMap, mxW, mxR, arg, snap, ref,
                   ret, member, hist, seen>>
    /\ UNCHANGED <<proposedBlockGrpcUri, shouldStart, canStart, dlEventCh, mining,
                   tasks, calls, nCalls>>

\* case <-miner.exitCh (worker.close()) and case <-chainBlockSub.Err(): return
Exit(kind) ==
    /\ InLoop
    /\ pc' = [pc EXCEPT ![Updater] = "exited"]
    /\ mining' = IF kind = "exit" THEN FALSE ELSE mining
    /\ Handled(kind, 0)
    /\ UNCHANGED <<constructed, clientMap, clientGrpcMap, mxW, mxR, arg, snap, ref,
                   ret, member, hist, seen>>
    /\ UNCHANGED <<proposedBlockGrpcUri, shouldStart, canStart, dlEventCh,
                   headNumber, bcasts, tasks, calls, nCalls>>

ExitCh == Exit("exit")
SubErr == Exit("subErr")

\* ------------------------------------------------------------ proposal pipeline

\* concurrent callers of Miner.ProposedBlock (relays submitting blocks)
Proposers == {"b1", "b2"}
\* the last instant of the wall clock
MaxTime == 3

\* worker.chainConfig.Parlia.Period, the slot length, scaled down
Period == 3
\* worker.config.DelayLeftOver, the time reserved to finalize a block, scaled down
DelayLeftOver == 2
\* worker.config.GasCeil, scaled down
GasCeil == 10
\* params.GasLimitBoundDivisor, scaled down
GasLimitBoundDivisor == 4
\* params.MinGasLimit, scaled down
MinGasLimit == 5
\* cap(worker.proposedCh)
ProposedChCap == 1

\* the gas limits the worker has recorded for the current and the previous block
HeadGasLimits == {GasCeil - 2, GasCeil + 2}

NoProposal == [pc |-> "idle", gasLimit |-> 0, gasUsed |-> 0, arrival |-> "",
               ctxEnd |-> 0, work |-> FALSE, err |-> "", sim |-> 0, pushed |-> 0,
               engine |-> "", elapsed |-> 0, simDuration |-> 0]

\* where the instant t lies with respect to the deadline computed from the block
\* time head: the block's timestamp plus the slot period minus the finalize reserve
Arrival(t, head) ==
    LET deadline == head + Period - DelayLeftOver IN
    IF t < deadline THEN "before" ELSE IF t = deadline THEN "at" ELSE "after"

endOfProposingWindow_NoReserve(head) == head + Period

\* time.Unix(CurrentBlock().Time() + Period, 0).Add(-DelayLeftOver)
endOfProposingWindow(head) == head + Period - DelayLeftOver

\* time.Until(t)
Until(t) == t - now

TooLate_Strict(timeout) == timeout < 0

\* if timeout <= 0: the proposed block is too late
TooLate(timeout) == timeout <= 0

\* a call ends with the error err
Fail(b, err) == [prop EXCEPT ![b].pc = "done", ![b].err = err]

\* ProposedBlock, lines 460-469: the window check and the derived context
ProposedBlockWindow(b) ==
    /\ prop[b].pc = "idle"
    /\ \E gasLimit \in {GasCeil - 1, GasCeil},
          gasUsed \in (currentGasLimit - 1)..(currentGasLimit + 1) :
        LET timeout == Until(endOfProposingWindow(currentBlockTime))
            call == [NoProposal EXCEPT !.gasLimit = gasLimit, !.gasUsed = gasUsed,
                                       !.arrival = Arrival(now, currentBlockTime)] IN
        prop' = [prop EXCEPT ![b] =
                    IF TooLate(timeout)
                    THEN [call EXCEPT !.pc = "done", !.err = "too late"]
                    ELSE [call EXCEPT !.pc = "gas", !.ctxEnd = now + timeout]]
    /\ UNCHANGED <<now, currentBlockTime, currentGasLimit, prevBlockGasLimit,
                   proposedCh>>

isBlockSkipped_AtLimit(gasUsed, limit) == gasUsed >= limit

\* isBlockSkipped = gasUsed > currentGasLimit
isBlockSkipped(gasUsed, limit) == gasUsed > limit

\* ProposedBlock, lines 471-499: the atomic loads and the gas pre-check
ProposedBlockGas(b) ==
    /\ prop[b].pc = "gas"
    /\ prop' = IF isBlockSkipped(prop[b].gasUsed, currentGasLimit)
               THEN Fail(b, "exceeds")
               ELSE [prop EXCEPT ![b].pc = "limit"]
    /\ UNCHANGED <<now, currentBlockTime, currentGasLimit, prevBlockGasLimit,
                   proposedCh>>

\* core.CalcGasLimit: the parent's limit moved towards the desired limit by at
\* most parentGasLimit / GasLimitBoundDivisor - 1
CalcGasLimit(parentGasLimit, desiredLimit) ==
    LET delta == (parentGasLimit \div GasLimitBoundDivisor) - 1
        desired == IF desiredLimit < MinGasLimit THEN MinGasLimit ELSE desiredLimit IN
    IF parentGasLimit < desired
    THEN IF parentGasLimit + delta > desired THEN desired ELSE parentGasLimit + delta
    ELSE IF parentGasLimit > desired
    THEN IF parentGasLimit - delta < desired THEN desired ELSE parentGasLimit - delta
    ELSE parentGasLimit

WrongGasLimit_Never(desiredGasLimit, gasLimit) == FALSE

\* ProposedBlock, line 501: the proposed gas limit is not the validator's
WrongGasLimit(desiredGasLimit, gasLimit) == desiredGasLimit # gasLimit

\* ProposedBlock, lines 500-516: the gas-limit check, then the call of
\* worker.simulateProposedBlock
ProposedBlockLimit(b) ==
    /\ prop[b].pc = "limit"
    /\ prop' = IF WrongGasLimit(CalcGasLimit(prevBlockGasLimit, GasCeil),
                               prop[b].gasLimit)
               THEN Fail(b, "mismatch")
               ELSE [prop EXCEPT ![b].pc = "sim", ![b].sim = @ + 1]
    /\ UNCHANGED <<now, currentBlockTime, currentGasLimit, prevBlockGasLimit,
                   proposedCh>>

\* what worker.simulateProposedBlock can return: a work, nil for a skipped
\* block, an error, or a work together with an error
EngineResults == {"work", "nil", "err", "both"}

SimulateOutcome_NilIsError(res) ==
    IF res = "work" THEN "handoff" ELSE "error"

\* ProposedBlock, lines 517-524: the error is looked at first, then a nil work
SimulateOutcome(res) ==
    IF res \in {"err", "both"} THEN "error"
    ELSE IF res = "nil" THEN "skip"
    ELSE "handoff"

\* the elapsed durations worker.simulateProposedBlock can report
Durations == {1, 2}

SimDuration_OnlyWithoutError(res, elapsed) ==
    IF res \in {"err", "both"} THEN 0 ELSE elapsed

\* ProposedBlock, line 516: the named result simDuration is assigned what the
\* engine reports, before err is looked at
SimDuration(res, elapsed) == elapsed

\* ProposedBlock, lines 516-524: worker.simulateProposedBlock returns
SimulateReturn(b) ==
    /\ prop[b].pc = "sim"
    /\ \E res \in EngineResults, elapsed \in Durations :
        LET got == [prop EXCEPT ![b].engine = res, ![b].elapsed = elapsed,
                                ![b].simDuration = SimDuration(res, elapsed)] IN
        prop' = CASE SimulateOutcome(res) = "error" ->
                       [got EXCEPT ![b].pc = "done", ![b].err = "simulate"]
                  [] SimulateOutcome(res) = "skip" ->
                       [got EXCEPT ![b].pc = "done", ![b].err = ""]
                  [] OTHER ->
                       [got EXCEPT ![b].pc = "handoff", ![b].work = TRUE]
    /\ UNCHANGED <<now, currentBlockTime, currentGasLimit, prevBlockGasLimit,
                   proposedCh>>

\* ProposedBlock, lines 530-531: the channel takes the envelope
HandoffPush(b) ==
    /\ prop[b].pc = "handoff"
    /\ Len(proposedCh) < ProposedChCap
    /\ proposedCh' = Append(proposedCh, [by |-> b])
    /\ prop' = [prop EXCEPT ![b].pc = "done", ![b].pushed = @ + 1]
    /\ UNCHANGED <<now, currentBlockTime, currentGasLimit, prevBlockGasLimit>>

CtxDone_Always(ctxEnd) == TRUE

CtxDone_Never(ctxEnd) == FALSE

\* ProposedBlock, lines 468 and 527: proposingCtx.Done() is closed once the
\* timeout given to context.WithTimeout has run out
CtxDone(ctxEnd) == now >= ctxEnd

\* ProposedBlock, lines 527-529: the select takes the case of proposingCtx.Done()
HandoffCancel(b) ==
    /\ prop[b].pc = "handoff"
    /\ CtxDone(prop[b].ctxEnd)
    /\ prop' = Fail(b, "context")
    /\ UNCHANGED <<now, currentBlockTime, currentGasLimit, prevBlockGasLimit,
                   proposedCh>>

\* the call has returned to its caller, which may call again
ProposedBlockReturn(b) ==
    /\ prop[b].pc = "done"
    /\ prop' = [prop EXCEPT ![b] = NoProposal]
    /\ UNCHANGED <<now, currentBlockTime, currentGasLimit, prevBlockGasLimit,
                   proposedCh>>

\* the worker takes an envelope from proposedCh
Consume ==
    /\ proposedCh # <<>>
    /\ proposedCh' = Tail(proposedCh)
    /\ UNCHANGED <<now, currentBlockTime, currentGasLimit, prevBlockGasLimit, prop>>

\* time passes
Tick ==
    /\ now < MaxTime
    /\ now' = now + 1
    /\ UNCHANGED <<currentBlockTime, currentGasLimit, prevBlockGasLimit, proposedCh,
                   prop>>

\* the chain head moves to a block with the timestamp of the present
NewHead ==
    /\ currentBlockTime < now
    /\ currentBlockTime' = now
    /\ UNCHANGED <<now, currentGasLimit, prevBlockGasLimit, proposedCh, prop>>

\* ------------------------------------------------------------ bid ingress

\* common.AddressLength in bytes, scaled down from 20
AddressLength == 1

\* the texts a bid can carry as its builder address: empty, not hexadecimal,
\* too short, one address written with and without prefix in either case, and
\* a second address
AddressTexts ==
    {<<>>, <<"z", "z">>, <<"0", "x", "a">>, <<"0", "x", "a", "1">>, <<"A", "1">>,
     <<"0", "x", "b", "2">>}

\* hexutil / common: has0xPrefix
has0xPrefix(s) == Len(s) >= 2 /\ s[1] = "0" /\ s[2] \in {"x", "X"}

StripPrefix(s) == IF has0xPrefix(s) THEN SubSeq(s, 3, Len(s)) ELSE s

\* common.isHexCharacter
isHexCharacter(c) == c \in {"0", "1", "2", "a", "b", "A", "B"}

\* common.isHex: an even number of hexadecimal characters
isHex(s) == Len(s) % 2 = 0 /\ \A i \in 1..Len(s) : isHexCharacter(s[i])

\* common.IsHexAddress: the prefix is optional, the digits make one address
IsHexAddress(s) ==
    LET t == StripPrefix(s) IN Len(t) = 2 * AddressLength /\ isHex(t)

ToLower(c) == CASE c = "A" -> "a" [] c = "B" -> "b" [] OTHER -> c

\* common.HexToAddress on a text IsHexAddress accepts: the bytes the digits
\* spell, whatever the prefix and the case of the digits
HexToAddress(s) == LET t == StripPrefix(s) IN [i \in 1..Len(t) |-> ToLower(t[i])]

\* the addresses a signature can recover to
Signers == {<<"a", "1">>, <<"b", "2">>}

\* the chain heads CurrentBlock() can return
Heads == {1, 2}

\* currentBlock.Hash().Hex()
HashHex(n) == IF n = 1 THEN "h1" ELSE "h2"

\* the raw transactions of a bid: none, one that decodes, one that decodes
\* followed by one that does not
TxLists == {<<>>, <<"ok">>, <<"ok", "bad">>}

\* BidMessage, lines 26-43 (the timestamp is never looked at)
BidMessages ==
    [Block : {0, 2, 3}, ParentHash : {"", "h1", "h2"}, GasLimit : {0, 1},
     GasValue : {0, 1, 2}, BuilderFeeValue : {-1, 0, 1},
     BuilderAddress : AddressTexts, Txs : TxLists]

ZeroMessage ==
    [Block |-> 0, ParentHash |-> "", GasLimit |-> 0, GasValue |-> 0,
     BuilderFeeValue |-> 0, BuilderAddress |-> <<>>, Txs |-> <<>>]

\* a detached signature: whether its text is hexadecimal, and the address the
\* signature oracle recovers from it over the serialized message (none for a
\* signature it cannot recover from)
Signatures ==
    {[hex |-> FALSE, signer |-> <<>>], [hex |-> TRUE, signer |-> <<>>]}
        \cup {[hex |-> TRUE, signer |-> a] : a \in Signers}

\* BidArgs, lines 45-50: Message is a pointer and may be nil
BidArgsSet ==
    {[isNil |-> FALSE, Message |-> m, Signature |-> s] :
        m \in BidMessages, s \in Signatures}
        \cup {[isNil |-> TRUE, Message |-> ZeroMessage, Signature |-> s] :
                s \in Signatures}

NoForward ==
    [builder |-> <<>>, block |-> 0, txs |-> <<>>, gasValue |-> 0, fee |-> 0,
     gasLimit |-> 0]

NoBid ==
    [pc |-> "idle", args |-> [isNil |-> TRUE, Message |-> ZeroMessage,
                              Signature |-> [hex |-> FALSE, signer |-> <<>>]],
     enabled |-> FALSE, rlpOk |-> FALSE, cur |-> 0, err |-> "", hook |-> 0,
     fwd |-> NoForward]

LowerThanFee_Strict(gasValue, fee) == gasValue < fee

\* checkBasic, line 73: GasValue <= BuilderFeeValue
LowerThanFee(gasValue, fee) == gasValue <= fee

\* checkBasic, lines 52-86, on a message that is there: the first error, or ""
checkBasic(m) ==
    IF m.Block = 0 THEN "missing block number"
    ELSE IF m.ParentHash = "" THEN "missing parent hash"
    ELSE IF m.GasLimit <= 0 THEN "missing gas limit"
    ELSE IF m.GasValue <= 0 THEN "missing gas value"
    ELSE IF m.BuilderFeeValue < 0 THEN "invalid builder fee"
    ELSE IF LowerThanFee(m.GasValue, m.BuilderFeeValue)
         THEN "gas value is lower than builder fee"
    ELSE IF m.BuilderAddress = <<>> THEN "missing builder address"
    ELSE IF ~IsHexAddress(m.BuilderAddress) THEN "wrong builder address format"
    ELSE ""

\* tx.UnmarshalBinary succeeds on every raw transaction
AllDecode(txs) == \A i \in 1..Len(txs) : txs[i] = "ok"

checkBlock_AnyParent(m, cur) ==
    IF m.Block # cur + 1 THEN "invalid block height"
    ELSE IF ~AllDecode(m.Txs) THEN "invalid txs"
    ELSE ""

\* checkBlock, lines 88-109: the first error, or ""
checkBlock(m, cur) ==
    IF m.Block # cur + 1 THEN "invalid block height"
    ELSE IF m.ParentHash # HashHex(cur) THEN "invalid parent hash"
    ELSE IF ~AllDecode(m.Txs) THEN "invalid txs"
    ELSE ""

SignerMismatch_Never(expected, actual) == FALSE

\* checkSignature, line 130: expected != actual
SignerMismatch(expected, actual) == expected # actual

\* checkSignature, lines 111-135: the first error, "" for none, or the panic of
\* hexutil.MustDecode on a signature that is not hexadecimal
checkSignature(args, rlpOk) ==
    IF ~rlpOk THEN "fail to verify signature"
    ELSE IF ~args.Signature.hex THEN "panic"
    ELSE IF args.Signature.signer = <<>> THEN "fail to verify signature"
    ELSE IF SignerMismatch(args.Signature.signer,
                           HexToAddress(args.Message.BuilderAddress))
         THEN "invalid signature"
    ELSE ""

\* a Bid call ends with the error err ("" for nil)
BidFail(err) == [bid EXCEPT !.pc = "done", !.err = err]

\* the JSON-RPC server calls PublicBuilderAPI.Bid
BidCall ==
    /\ bid.pc = "idle"
    /\ \E args \in BidArgsSet :
        bid' = [NoBid EXCEPT !.pc = "enabled", !.args = args]
    /\ UNCHANGED <<api, grpcCall>>

\* Bid, lines 138-141: the builder-enabled gate
BidEnabled ==
    /\ bid.pc = "enabled"
    /\ \E enabled \in BOOLEAN :
        bid' = IF ~enabled
               THEN [BidFail("builder is not enabled") EXCEPT !.enabled = enabled]
               ELSE [bid EXCEPT !.pc = "basic", !.enabled = enabled]
    /\ UNCHANGED <<api, grpcCall>>

\* Bid, lines 143-146: checkBasic, which dereferences args.Message at once
BidBasic ==
    /\ bid.pc = "basic"
    /\ bid' = IF bid.args.isNil THEN [bid EXCEPT !.pc = "panic"]
              ELSE IF checkBasic(bid.args.Message) # ""
                   THEN BidFail(checkBasic(bid.args.Message))
              ELSE [bid EXCEPT !.pc = "block"]
    /\ UNCHANGED <<api, grpcCall>>

\* Bid, lines 148-152: CurrentBlock() and checkBlock
BidBlock ==
    /\ bid.pc = "block"
    /\ \E cur \in Heads :
        bid' = IF checkBlock(bid.args.Message, cur) # ""
               THEN [BidFail(checkBlock(bid.args.Message, cur)) EXCEPT !.cur = cur]
               ELSE [bid EXCEPT !.pc = "sig", !.cur = cur]
    /\ UNCHANGED <<api, grpcCall>>

\* Bid, lines 154-157: checkSignature
BidSignature ==
    /\ bid.pc = "sig"
    /\ \E rlpOk \in BOOLEAN :
        LET res == checkSignature(bid.args, rlpOk) IN
        bid' = IF res = "panic" THEN [bid EXCEPT !.pc = "panic", !.rlpOk = rlpOk]
               ELSE IF res # "" THEN [BidFail(res) EXCEPT !.rlpOk = rlpOk]
               ELSE [bid EXCEPT !.pc = "forward", !.rlpOk = rlpOk]
    /\ UNCHANGED <<api, grpcCall>>

\* Bid, lines 159-160: the backend's Bid hook, whose result is returned
BidForward ==
    /\ bid.pc = "forward"
    /\ \E res \in {"", "backend"} :
        LET m == bid.args.Message IN
        bid' = [bid EXCEPT !.pc = "done", !.err = res, !.hook = @ + 1,
                           !.fwd = [builder |-> HexToAddress(m.BuilderAddress),
                                    block |-> m.Block, txs |-> m.Txs,
                                    gasValue |-> m.GasValue,
                                    fee |-> m.BuilderFeeValue,
                                    gasLimit |-> m.GasLimit]]
    /\ UNCHANGED <<api, grpcCall>>

\* the call has returned to the server, which may call again
BidReturn ==
    /\ bid.pc = "done"
    /\ bid' = NoBid
    /\ UNCHANGED <<api, grpcCall>>

\* ----------------------------------------------------------- gRPC ingress

\* the node IDs and secrets the server can be configured with; "" is <<>>
NodeIDs == {<<>>, <<"n">>}
Secrets == {<<>>, <<"s">>}

\* base64.StdEncoding.EncodeToString: injective, and never "" on data that
\* is not empty
EncodeToString(data) == <<"base64">> \o data

\* encodeNodeSecret, lines 325-328: base64 of "user:secret"
encodeNodeSecret(user, secret) == EncodeToString(user \o <<":">> \o secret)

\* NewAPI, lines 250-262: the header is set when both strings are non-empty
NewAPI(nodeID, secret) ==
    [nodeID |-> nodeID, secret |-> secret,
     authHeader |-> IF nodeID # <<>> /\ secret # <<>>
                    THEN encodeNodeSecret(nodeID, secret)
                    ELSE <<>>]

\* the values a caller can send as its authorization header
HeaderValues ==
    {<<>>, encodeNodeSecret(<<"n">>, <<"s">>), encodeNodeSecret(<<>>, <<"s">>),
     encodeNodeSecret(<<"n">>, <<"x">>)}

\* the incoming context: without metadata, with metadata that has no
\* authorization values, or with one authorization value
Metadata ==
    {[ok |-> FALSE, authorization |-> <<>>], [ok |-> TRUE, authorization |-> <<>>]}
        \cup {[ok |-> TRUE, authorization |-> <<v>>] : v \in HeaderValues}

\* readAuthMetadata, lines 311-322
readAuthMetadata(md) ==
    IF ~md.ok
    THEN [auth |-> <<>>, err |-> "could not read metadata from context"]
    ELSE IF Len(md.authorization) = 0
    THEN [auth |-> <<>>, err |-> "empty auth header provided"]
    ELSE [auth |-> md.authorization[1], err |-> ""]

\* pb.ProposeBlockRequest: the fields ProposeBlock validates
ProposeBlockRequests == [Payload : TxLists, BlockNumber : {0, 1, 2, 3}]

NoCall ==
    [pc |-> "idle", md |-> [ok |-> FALSE, authorization |-> <<>>],
     in |-> [Payload |-> <<>>, BlockNumber |-> 0], cur |-> 0, err |-> "",
     code |-> "", handler |-> 0, pipeline |-> 0, winHead |-> 0,
     resp |-> [isNil |-> TRUE, SimulatedDuration |-> 0]]

\* a gRPC call ends with the error err ("" for nil)
CallFail(err) == [grpcCall EXCEPT !.pc = "done", !.err = err]

\* a caller invokes ProposeBlock on the server
GrpcCall ==
    /\ grpcCall.pc = "idle"
    /\ \E md \in Metadata, in \in ProposeBlockRequests :
        grpcCall' = [NoCall EXCEPT !.pc = "auth", !.md = md, !.in = in]
    /\ UNCHANGED <<api, bid>>

\* API.authenticate, lines 296-308: the unary interceptor
Authenticate ==
    /\ grpcCall.pc = "auth"
    /\ LET r == readAuthMetadata(grpcCall.md) IN
       grpcCall' =
           IF api.authHeader # <<>> /\ r.err # "" THEN CallFail(r.err)
           ELSE IF api.authHeader # <<>> /\ r.auth # api.authHeader
                THEN CallFail("incorrect auth header provided")
           ELSE [grpcCall EXCEPT !.pc = "handler", !.handler = @ + 1]
    /\ UNCHANGED <<api, bid>>

IncorrectBlockNumber_BelowOnly(n, cur) == n < cur

\* ProposeBlock, line 381: proposedBlockNumber.Cmp(blockOnChain.Number()) < 1
IncorrectBlockNumber(n, cur) == n <= cur

\* ProposeBlock, lines 371-391: the checks before the pipeline is called, with
\* the chain head CurrentBlock() returns being one of heads
ProposeBlockValidate(heads) ==
    /\ grpcCall.pc = "handler"
    /\ \E cur \in heads :
        LET in == grpcCall.in IN
        grpcCall' =
            IF Len(in.Payload) = 0 THEN CallFail("proposed block missing txs")
            ELSE IF in.BlockNumber = 0
                 THEN CallFail("proposed block missing blockNumber")
            ELSE IF IncorrectBlockNumber(in.BlockNumber, cur)
                 THEN [CallFail("incorrect blockNumber") EXCEPT !.cur = cur]
            ELSE IF ~AllDecode(in.Payload)
                 THEN [CallFail("decode") EXCEPT !.cur = cur]
            ELSE [grpcCall EXCEPT !.pc = "pipeline", !.cur = cur]
    /\ UNCHANGED <<api, bid>>

\* ProposeBlock, lines 396-403: what the call returns once backend.ProposedBlock
\* has returned simDuration and err: the Internal status and no response, or
\* the response carrying the duration
ProposeBlockRespond(simDuration, err) ==
    IF err # ""
    THEN [grpcCall EXCEPT !.pc = "done", !.err = err, !.code = "Internal"]
    ELSE [grpcCall EXCEPT !.pc = "done", !.err = "", !.code = "OK",
                          !.resp = [isNil |-> FALSE,
                                    SimulatedDuration |-> simDuration]]

\* ProposeBlock, lines 395-403: backend.ProposedBlock is called and returns
ProposeBlockPipeline ==
    /\ grpcCall.pc = "pipeline"
    /\ \E err \in {"", "pipeline"}, simDuration \in {0} \cup Durations :
        grpcCall' = [ProposeBlockRespond(simDuration, err)
                         EXCEPT !.pipeline = @ + 1]
    /\ UNCHANGED <<api, bid>>

\* the call has returned to the server, which may be called again
GrpcReturn ==
    /\ grpcCall.pc = "done"
    /\ grpcCall' = NoCall
    /\ UNCHANGED <<api, bid>>

\* the caller as which the gRPC handler runs Miner.ProposedBlock
GrpcProposer == "b1"

\* ProposeBlock, line 395: backend.ProposedBlock is entered and reads the
\* chain's current block for its window
ProposeBlockEnter ==
    /\ grpcCall.pc = "pipeline"
    /\ ProposedBlockWindow(GrpcProposer)
    /\ grpcCall' = [grpcCall EXCEPT !.pc = "wait", !.pipeline = @ + 1,
                                     !.winHead = headNumber]
    /\ UNCHANGED <<api, bid>>

\* ProposeBlock, lines 395-403: backend.ProposedBlock returns to the handler
ProposeBlockLeave ==
    /\ grpcCall.pc = "wait"
    /\ ProposedBlockReturn(GrpcProposer)
    /\ grpcCall' = ProposeBlockRespond(prop[GrpcProposer].simDuration,
                                       prop[GrpcProposer].err)
    /\ UNCHANGED <<api, bid>>

\* the chain gains a block: the head's number goes up and its timestamp is the
\* present
NewHeadBlock ==
    /\ headNumber < MaxBlock
    /\ NewHead
    /\ headNumber' = headNumber + 1
    /\ UNCHANGED <<proposedBlockGrpcUri, shouldStart, canStart, dlEventCh, mining,
                   bcasts, tasks, calls, lastEv, evTick, nCalls>>

\* no bid and no gRPC call is under way, on a server configured as one of apis
InitIngress(apis) ==
    /\ bid = NoBid
    /\ grpcCall = NoCall
    /\ api \in apis

\* ------------------------------------------------------------ specifications

InitRegistry ==
    /\ constructed = FALSE
    /\ clientMap = EmptyMap
    /\ clientGrpcMap = EmptyMap
    /\ mxW = NoProc
    /\ mxR = {}
    /\ pc = [p \in Procs |-> IF p = Updater THEN "start" ELSE "idle"]
    /\ arg = [p \in Procs |-> ""]
    /\ snap = [p \in Procs |-> EmptyMap]
    /\ ref = [p \in Procs |-> "copy"]
    /\ ret = NoRet
    /\ member = [rpc |-> {}, grpc |-> {}]
    /\ hist = NoHist
    /\ seen = [p \in Procs |-> {}]

\* Miner.New: the configured URI, the update loop not yet running
InitMiner(uris) ==
    /\ proposedBlockGrpcUri \in uris
    /\ shouldStart = FALSE
    /\ canStart = TRUE
    /\ dlEventCh = "open"
    /\ mining = FALSE
    /\ headNumber = 0
    /\ bcasts = <<>>
    /\ tasks = {}
    /\ calls = <<>>
    /\ lastEv = NoEv
    /\ evTick = FALSE
    /\ nCalls = 0

\* the pipeline before any proposal: the head's time and the gas limits the
\* worker recorded, drawn from the given sets
InitPipeline(heads, limits, prevLimits) ==
    /\ now = 0
    /\ currentBlockTime \in heads
    /\ currentGasLimit \in limits
    /\ prevBlockGasLimit \in prevLimits
    /\ proposedCh = <<>>
    /\ prop = [b \in Proposers |-> NoProposal]

Init ==
    /\ InitRegistry
    /\ InitMiner({""})
    /\ InitPipeline({0}, {GasCeil}, {GasCeil})
    /\ InitIngress({NewAPI(<<>>, <<>>)})

\* the registry under concurrent callers
NextRegistry ==
    \/ NewClientMap /\ UNCHANGED <<bcVars, propVars, ingVars>>
    \/ \E t \in Threads, relay \in Endpoints :
        \/ AddLock(t, relay) /\ UNCHANGED <<bcVars, propVars, ingVars>>
        \/ RemoveLock(t, relay) /\ UNCHANGED <<bcVars, propVars, ingVars>>
        \/ AddGrpcLock(t, relay) /\ UNCHANGED <<bcVars, propVars, ingVars>>
        \/ RemoveGrpcLock(t, relay) /\ UNCHANGED <<bcVars, propVars, ingVars>>
        \/ Get(t, relay) /\ UNCHANGED <<bcVars, propVars, ingVars>>
        \/ GetGRPC(t, relay) /\ UNCHANGED <<bcVars, propVars, ingVars>>
    \/ \E t \in Threads :
        \/ Add(t) /\ UNCHANGED <<bcVars, propVars, ingVars>>
        \/ Remove(t) /\ UNCHANGED <<bcVars, propVars, ingVars>>
        \/ AddGrpc(t) /\ UNCHANGED <<bcVars, propVars, ingVars>>
        \/ RemoveGrpc(t) /\ UNCHANGED <<bcVars, propVars, ingVars>>
        \/ LenCall(t) /\ UNCHANGED <<bcVars, propVars, ingVars>>
        \/ LenGRPC(t) /\ UNCHANGED <<bcVars, propVars, ingVars>>
        \/ (\E pool \in Pools : MappingMake(t, pool, "idle"))
                /\ UNCHANGED <<bcVars, propVars, ingVars>>
        \/ MappingRLock(t) /\ UNCHANGED <<bcVars, propVars, ingVars>>
        \/ MappingCopy(t) /\ UNCHANGED <<bcVars, propVars, ingVars>>
        \/ MappingReturn(t, "M_held") /\ UNCHANGED <<bcVars, propVars, ingVars>>
        \/ SnapshotMutate(t) /\ UNCHANGED <<bcVars, propVars, ingVars>>
        \/ SnapshotDrop(t) /\ UNCHANGED <<bcVars, propVars, ingVars>>

SpecRegistry == Init /\ [][NextRegistry]_vars

\* the callers of the relay management operations while the update loop runs
Managers == {"t1"}
\* the relay management calls made while the update loop runs
MaxCalls == 2

\* the maps NewClientMap can leave
StartupMaps ==
    UNION {{DialAll(l, oks, 1, EmptyMap) : oks \in [1..Len(l) -> BOOLEAN]} :
           l \in CfgLists}

\* the state Miner.New leaves: the registry constructed from the configured
\* lists, the URI configured or not, the update loop about to run
InitBroadcast ==
    /\ constructed = TRUE
    /\ clientMap \in StartupMaps
    /\ clientGrpcMap \in StartupMaps
    /\ mxW = NoProc
    /\ mxR = {}
    /\ pc = [p \in Procs |-> IF p = Updater THEN "start" ELSE "idle"]
    /\ arg = [p \in Procs |-> ""]
    /\ snap = [p \in Procs |-> EmptyMap]
    /\ ref = [p \in Procs |-> "copy"]
    /\ ret = NoRet
    /\ member = [rpc |-> Keys(clientMap), grpc |-> Keys(clientGrpcMap)]
    /\ hist = NoHist
    /\ seen = [p \in Procs |-> {}]
    /\ InitMiner({"", "grpc://validator"})
    /\ InitPipeline({0}, {GasCeil}, {GasCeil})
    /\ InitIngress({NewAPI(<<>>, <<>>)})

\* the registry steps of the update loop and of the relay management calls
\* a relay management call starts: one more of up to MaxCalls
ManagerCall ==
    /\ nCalls < MaxCalls
    /\ nCalls' = nCalls + 1
    /\ UNCHANGED <<proposedBlockGrpcUri, shouldStart, canStart, dlEventCh, mining,
                   headNumber, bcasts, tasks, calls, lastEv, evTick>>

\* broadcasts at startup and at epoch blocks, beside relay management calls
NextBroadcast ==
    \/ \E t \in Managers, relay \in Endpoints :
        \/ AddRelayLock(t, relay) /\ ManagerCall /\ UNCHANGED <<propVars, ingVars>>
        \/ RemoveRelayLock(t, relay) /\ ManagerCall /\ UNCHANGED <<propVars, ingVars>>
        \/ AddGrpcLock(t, relay) /\ ManagerCall /\ UNCHANGED <<propVars, ingVars>>
        \/ RemoveGrpcLock(t, relay) /\ ManagerCall /\ UNCHANGED <<propVars, ingVars>>
    \/ \E t \in Managers :
        \/ AddRelayAdd(t) /\ UNCHANGED <<bcVars, propVars, ingVars>>
        \/ Remove(t) /\ UNCHANGED <<bcVars, propVars, ingVars>>
        \/ AddGrpc(t) /\ UNCHANGED <<bcVars, propVars, ingVars>>
        \/ RemoveGrpc(t) /\ UNCHANGED <<bcVars, propVars, ingVars>>
        \/ AddRelayCall(t) /\ UNCHANGED <<propVars, ingVars>>
    \/ MappingMake(Updater, arg[Updater], "rv_make") /\ UNCHANGED <<bcVars, propVars, ingVars>>
    \/ MappingRLock(Updater) /\ UNCHANGED <<bcVars, propVars, ingVars>>
    \/ MappingCopy(Updater) /\ UNCHANGED <<bcVars, propVars, ingVars>>
    \/ MappingReturn(Updater, "rv_range") /\ UNCHANGED <<bcVars, propVars, ingVars>>
    \/ Startup /\ UNCHANGED <<propVars, ingVars>>
    \/ RegisterValidatorCheck /\ UNCHANGED <<propVars, ingVars>>
    \/ RegisterValidatorRange /\ UNCHANGED <<propVars, ingVars>>
    \/ RegisterValidatorGo /\ UNCHANGED <<propVars, ingVars>>
    \/ RegisterValidatorReturn /\ UNCHANGED <<propVars, ingVars>>
    \/ \E tk \in tasks : RegisterCall(tk) /\ UNCHANGED <<propVars, ingVars>>
    \/ ChainBlock /\ UNCHANGED <<propVars, ingVars>>

SpecBroadcast == InitBroadcast /\ [][NextBroadcast]_vars

\* the update loop under every event it selects on
NextUpdate ==
    \/ MappingMake(Updater, arg[Updater], "rv_make") /\ UNCHANGED <<bcVars, propVars, ingVars>>
    \/ MappingRLock(Updater) /\ UNCHANGED <<bcVars, propVars, ingVars>>
    \/ MappingCopy(Updater) /\ UNCHANGED <<bcVars, propVars, ingVars>>
    \/ MappingReturn(Updater, "rv_range") /\ UNCHANGED <<bcVars, propVars, ingVars>>
    \/ Startup /\ UNCHANGED <<propVars, ingVars>>
    \/ RegisterValidatorCheck /\ UNCHANGED <<propVars, ingVars>>
    \/ RegisterValidatorRange /\ UNCHANGED <<propVars, ingVars>>
    \/ RegisterValidatorGo /\ UNCHANGED <<propVars, ingVars>>
    \/ RegisterValidatorReturn /\ UNCHANGED <<propVars, ingVars>>
    \/ \E tk \in tasks : RegisterCall(tk) /\ UNCHANGED <<propVars, ingVars>>
    \/ DownloaderNil /\ UNCHANGED <<propVars, ingVars>>
    \/ DownloaderStart /\ UNCHANGED <<propVars, ingVars>>
    \/ DownloaderFailed /\ UNCHANGED <<propVars, ingVars>>
    \/ DownloaderDone /\ UNCHANGED <<propVars, ingVars>>
    \/ StartCh /\ UNCHANGED <<propVars, ingVars>>
    \/ StopCh /\ UNCHANGED <<propVars, ingVars>>
    \/ ChainBlock /\ UNCHANGED <<propVars, ingVars>>
    \/ ExitCh /\ UNCHANGED <<propVars, ingVars>>
    \/ SubErr /\ UNCHANGED <<propVars, ingVars>>

SpecUpdate == InitBroadcast /\ [][NextUpdate]_vars

InitProposal ==
    /\ InitRegistry
    /\ InitMiner({""})
    /\ InitPipeline({0}, HeadGasLimits, HeadGasLimits)
    /\ InitIngress({NewAPI(<<>>, <<>>)})

\* concurrent proposals, the clock, the chain head and the block-building worker
NextProposal ==
    \/ \E b \in Proposers :
        \/ ProposedBlockWindow(b) /\ UNCHANGED <<regVars, bcVars, ingVars>>
        \/ ProposedBlockGas(b) /\ UNCHANGED <<regVars, bcVars, ingVars>>
        \/ ProposedBlockLimit(b) /\ UNCHANGED <<regVars, bcVars, ingVars>>
        \/ SimulateReturn(b) /\ UNCHANGED <<regVars, bcVars, ingVars>>
        \/ HandoffPush(b) /\ UNCHANGED <<regVars, bcVars, ingVars>>
        \/ HandoffCancel(b) /\ UNCHANGED <<regVars, bcVars, ingVars>>
        \/ ProposedBlockReturn(b) /\ UNCHANGED <<regVars, bcVars, ingVars>>
    \/ Consume /\ UNCHANGED <<regVars, bcVars, ingVars>>
    \/ Tick /\ UNCHANGED <<regVars, bcVars, ingVars>>
    \/ NewHead /\ UNCHANGED <<regVars, bcVars, ingVars>>

SpecProposal == InitProposal /\ [][NextProposal]_vars

\* what the scheduling gives a ProposedBlock call: its own steps run when they
\* can, the clock advances, a select whose context is done takes that case,
\* and the engine returns once its context is cancelled; nothing makes the
\* worker drain the channel
FairProposal ==
    /\ WF_vars(Tick /\ UNCHANGED <<regVars, bcVars, ingVars>>)
    /\ \A b \in Proposers :
        /\ WF_vars(ProposedBlockGas(b) /\ UNCHANGED <<regVars, bcVars, ingVars>>)
        /\ WF_vars(ProposedBlockLimit(b) /\ UNCHANGED <<regVars, bcVars, ingVars>>)
        /\ WF_vars(/\ CtxDone(prop[b].ctxEnd)
                   /\ SimulateReturn(b)
                   /\ UNCHANGED <<regVars, bcVars, ingVars>>)
        /\ WF_vars(HandoffCancel(b) /\ UNCHANGED <<regVars, bcVars, ingVars>>)

SpecProposalFair == Init /\ [][NextProposal]_vars /\ FairProposal

\* bids arriving at the JSON-RPC entry point, one call at a time
NextBid ==
    \/ BidCall /\ UNCHANGED <<regVars, bcVars, propVars>>
    \/ BidEnabled /\ UNCHANGED <<regVars, bcVars, propVars>>
    \/ BidBasic /\ UNCHANGED <<regVars, bcVars, propVars>>
    \/ BidBlock /\ UNCHANGED <<regVars, bcVars, propVars>>
    \/ BidSignature /\ UNCHANGED <<regVars, bcVars, propVars>>
    \/ BidForward /\ UNCHANGED <<regVars, bcVars, propVars>>
    \/ BidReturn /\ UNCHANGED <<regVars, bcVars, propVars>>

SpecBid == Init /\ [][NextBid]_vars

\* the gRPC server under each configuration of node ID and secret
InitGrpc ==
    /\ InitRegistry
    /\ InitMiner({""})
    /\ InitPipeline({0}, {GasCeil}, {GasCeil})
    /\ InitIngress({NewAPI(nodeID, secret) : nodeID \in NodeIDs, secret \in Secrets})

\* proposals arriving at the gRPC entry point, one call at a time
NextGrpc ==
    \/ GrpcCall /\ UNCHANGED <<regVars, bcVars, propVars>>
    \/ Authenticate /\ UNCHANGED <<regVars, bcVars, propVars>>
    \/ ProposeBlockValidate(Heads) /\ UNCHANGED <<regVars, bcVars, propVars>>
    \/ ProposeBlockPipeline /\ UNCHANGED <<regVars, bcVars, propVars>>
    \/ GrpcReturn /\ UNCHANGED <<regVars, bcVars, propVars>>

SpecGrpc == InitGrpc /\ [][NextGrpc]_vars

\* a proposal from the gRPC entry point through the pipeline, while the clock
\* runs, the chain grows and the worker drains the channel
NextEndToEnd ==
    \/ GrpcCall /\ UNCHANGED <<regVars, bcVars, propVars>>
    \/ Authenticate /\ UNCHANGED <<regVars, bcVars, propVars>>
    \/ ProposeBlockValidate({headNumber}) /\ UNCHANGED <<regVars, bcVars, propVars>>
    \/ ProposeBlockEnter /\ UNCHANGED <<regVars, bcVars>>
    \/ ProposedBlockGas(GrpcProposer) /\ UNCHANGED <<regVars, bcVars, ingVars>>
    \/ ProposedBlockLimit(GrpcProposer) /\ UNCHANGED <<regVars, bcVars, ingVars>>
    \/ SimulateReturn(GrpcProposer) /\ UNCHANGED <<regVars, bcVars, ingVars>>
    \/ HandoffPush(GrpcProposer) /\ UNCHANGED <<regVars, bcVars, ingVars>>
    \/ HandoffCancel(GrpcProposer) /\ UNCHANGED <<regVars, bcVars, ingVars>>
    \/ ProposeBlockLeave /\ UNCHANGED <<regVars, bcVars>>
    \/ GrpcReturn /\ UNCHANGED <<regVars, bcVars, propVars>>
    \/ Consume /\ UNCHANGED <<regVars, bcVars, ingVars>>
    \/ Tick /\ UNCHANGED <<regVars, bcVars, ingVars>>
    \/ NewHeadBlock /\ UNCHANGED <<regVars, ingVars>>

SpecEndToEnd == Init /\ [][NextEndToEnd]_vars

\* ------------------------------------------------------------ registry claims

\* C1: after any interleaving of Add, Remove, AddGrpc and RemoveGrpc calls,
\* successful or failing, Len() is the number of endpoints whose last successful
\* operation on the legacy pool was an add, and LenGRPC() the same for the gRPC
\* pool; a Len / LenGRPC call that just returned has returned that number.
C1_LenIsMembership ==
    /\ LenResult = Cardinality(member.rpc)
    /\ LenGRPCResult = Cardinality(member.grpc)
    /\ (ret.op = "Len" => ret.n = Cardinality(member.rpc))
    /\ (ret.op = "LenGRPC" => ret.n = Cardinality(member.grpc))

\* C1 witness: LenGRPC has just returned 2 while the legacy pool is empty
C1_Witness == ret.op = "LenGRPC" /\ ret.n = 2 /\ member.rpc = {} /\ mxW = NoProc

\* C2 as stated: a successful Add(e) directly followed by Remove(e) on the same
\* pool leaves the count at its value before the Add, also when e was present
\* before the Add.
C2_Orig == hist.kind = "pair" => hist.after = hist.before

\* C2 amended: a successful Add(e) directly followed by Remove(e) on the same
\* pool leaves the count at its value before the Add when e was absent before
\* the Add, and one below it when e was already present (the Add replaced the
\* entry without changing the count).
C2_AddRemoveCount ==
    hist.kind = "pair" =>
        hist.after = IF hist.present THEN hist.before - 1 ELSE hist.before

\* C2 witness: an Add of an absent endpoint to a pool of size 1, then its Remove
C2_Witness == hist.kind = "pair" /\ ~hist.present /\ hist.before = 1

\* C3 as stated: when a dial fails in Add, AddGrpc or NewClientMap, the failure
\* is reported and the endpoint is not a member of the pool afterwards.
C3_Orig ==
    /\ ret.failed.rpc # {} =>
            ret.err # "nil" \/ ret.op = "NewClientMap"
    /\ ret.failed.rpc \cap Keys(clientMap) = {}
    /\ ret.failed.grpc \cap Keys(clientGrpcMap) = {}

\* C3 amended: when a dial fails, Add / AddGrpc return the error and leave both
\* pools exactly as they were, and NewClientMap logs the failure and skips the
\* entry, so that after startup an endpoint is present only if one of its dials
\* succeeded: a failed dial never makes an endpoint present.
C3_FailedDialAddsNothing ==
    [][/\ \A t \in Threads :
            (pc[t] \in {"Add", "AddGrpc", "AddRelay"} /\ pc'[t] = "idle"
                /\ ret'.failed # NoFailed)
                => /\ ret'.err = "dial"
                   /\ clientMap' = clientMap
                   /\ clientGrpcMap' = clientGrpcMap
       /\ (~constructed /\ constructed')
                => /\ (ret'.failed.rpc \ member'.rpc) \cap Keys(clientMap') = {}
                   /\ (ret'.failed.grpc \ member'.grpc) \cap Keys(clientGrpcMap') = {}
                   /\ Keys(clientMap') = member'.rpc
                   /\ Keys(clientGrpcMap') = member'.grpc]_vars

\* C3 witness: Add has just returned a dial error for an endpoint that is absent
C3_Witness ==
    ret.op = "Add" /\ ret.failed.rpc # {} /\ ret.relay \notin Keys(clientMap)

\* C4: the map a Mapping / MappingGRPC call returns equals the pool's contents at
\* one point of the call, between two complete mutations; later Add / Remove do
\* not change it; and writing to it does not change the pool.
C4_SnapshotAtomicIndependent ==
    /\ [](\A p \in Procs : pc[p] = "M_held" => Deref(p) \in seen[p])
    /\ [][\A p \in Procs :
            /\ (pc[p] = "M_held" /\ pc'[p] = "M_held") => Deref(p)' = Deref(p)
            /\ (pc[p] = "M_held" /\ pc'[p] = "idle")
                    => clientMap' = clientMap /\ clientGrpcMap' = clientGrpcMap]_vars

\* C4 witness: a process holds a two-entry snapshot of a pool that Remove has
\* emptied since
C4_Witness ==
    \E p \in Procs :
        pc[p] = "M_held" /\ len(Deref(p)) = 2 /\ len(Live(arg[p])) = 0

\* ------------------------------------------------------------ broadcast claims

\* the registration calls broadcast b has issued to dest, failed ones included
CallsTo(b, dest) ==
    LET cs == {c \in DOMAIN calls : c.b = b /\ c.dest = dest} IN
    IF cs = {} THEN 0
    ELSE LET Sum[S \in SUBSET cs] ==
                IF S = {} THEN 0
                ELSE LET c == CHOOSE x \in S : TRUE IN calls[c] + Sum[S \ {c}]
         IN Sum[cs]

\* a step in which a broadcast goroutine issues a legacy-RPC registration call
LegacyBroadcastCall ==
    \E c \in DOMAIN calls' :
        /\ c.proto = "rpc"
        /\ (c \notin DOMAIN calls \/ calls'[c] # calls[c])

\* a step in which AddRelay issues its legacy-RPC registration call
LegacyAddRelayCall ==
    \E t \in Threads : pc[t] = "AddRelay_call" /\ pc'[t] = "idle"

\* C5 as stated: in every state where at least one gRPC relay is registered and
\* a gRPC callback URI is configured, no registration trigger issues a legacy
\* eth_registerValidator call.
C5_Orig == [][GrpcActive => ~LegacyBroadcastCall /\ ~LegacyAddRelayCall]_vars

\* C5 amended: a broadcast whose policy check found the gRPC callback URI
\* configured and at least one gRPC relay registered chooses the gRPC pool, and
\* none of its goroutines makes a legacy-RPC call; a broadcast whose check found
\* no URI or no gRPC relay chooses the legacy pool.
C5_GrpcBroadcastNoLegacy ==
    \A b \in 1..Len(bcasts) :
        /\ (proposedBlockGrpcUri # "" /\ bcasts[b].lenGrpc > 0) =>
                /\ bcasts[b].pool = "grpc"
                /\ \A x \in tasks \cup DOMAIN calls : x.b = b => x.proto = "grpc"
        /\ (bcasts[b].pool # "" /\ (proposedBlockGrpcUri = "" \/ bcasts[b].lenGrpc <= 0)) =>
                /\ bcasts[b].pool = "rpc"
                /\ \A x \in tasks \cup DOMAIN calls : x.b = b => x.proto = "rpc"

\* C5 witness: a broadcast that saw a gRPC relay has called it over gRPC while a
\* legacy relay is registered
C5_Witness ==
    \E b \in 1..Len(bcasts) :
        /\ bcasts[b].lenGrpc > 0
        /\ len(clientMap) > 0
        /\ \E c \in DOMAIN calls : c.b = b /\ c.proto = "grpc"

\* C6: a broadcast issues exactly one registration call to every relay of the
\* snapshot of the pool it chose, each from a goroutine of its own: at any time
\* every snapshot relay is either still to be spawned, or pending, or called
\* once; a call, failed or not, ends only its own goroutine and leaves the range
\* loop and every other goroutine alone; a broadcast over an empty snapshot
\* makes no call and returns.
C6_OneCallPerSnapshotRelay ==
    /\ [](\A b \in 1..Len(bcasts) :
            /\ \A x \in tasks \cup DOMAIN calls :
                    x.b = b => bcasts[b].ranged /\ x.dest \in bcasts[b].keys
            /\ \A k \in bcasts[b].keys :
                    LET pending == IF \E x \in tasks : x.b = b /\ x.dest = k
                                   THEN 1 ELSE 0
                        unspawned == IF k \in bcasts[b].iter THEN 1 ELSE 0 IN
                    unspawned + pending + CallsTo(b, k) = 1)
    /\ [][calls' # calls =>
            /\ Cardinality(tasks') = Cardinality(tasks) - 1
            /\ tasks' \subseteq tasks
            /\ pc' = pc
            /\ bcasts' = bcasts]_vars
    /\ [][(pc[Updater] \in {"rv_range", "rv_go"} /\ Keys(Deref(Updater)) = {}
                /\ pc'[Updater] # pc[Updater]) =>
            /\ tasks' = tasks
            /\ calls' = calls
            /\ pc'[Updater] = IF pc[Updater] = "rv_range" THEN "rv_go" ELSE "loop"]_vars

\* C6 witness: a broadcast over two relays is complete, one of its calls failed
\* and the other succeeded, and the update loop is back in its select
C6_Witness ==
    \E b \in 1..Len(bcasts) :
        /\ Cardinality(bcasts[b].keys) = 2
        /\ \E c, d \in DOMAIN calls :
                c.b = b /\ d.b = b /\ c.dest # d.dest /\ ~c.ok /\ d.ok
        /\ pc[Updater] = "loop"

\* C8: AddRelay(r), once its dial succeeded, makes one synchronous registration
\* call, to r, and returns nil when the call succeeds and the call's error when
\* it fails; when the dial fails it makes no call; its call step starts no
\* broadcast goroutine and no other call.
C8_AddRelayOneCall ==
    /\ [](ret.op = "AddRelay" =>
            IF ret.err = "dial" THEN ret.called = <<>>
            ELSE /\ Len(ret.called) = 1
                 /\ ret.called[1].dest = ret.relay
                 /\ ret.err = IF ret.called[1].ok THEN "nil" ELSE "call")
    /\ [][LegacyAddRelayCall =>
            (ret'.op = "AddRelay" /\ tasks' = tasks /\ calls' = calls)]_vars

\* C8 witness: AddRelay has returned the error of its failed registration call
C8_Witness ==
    ret.op = "AddRelay" /\ ret.err = "call" /\ ret.relay \in Keys(clientMap)

\* ------------------------------------------------------------ update-loop claims

\* a step in which the update loop handles an event
HandlesEvent == evTick' # evTick

\* a step in which the update loop handles a chain-head event of an epoch block
HandlesEpochBlock ==
    HandlesEvent /\ lastEv'.kind = "chainBlock" /\ lastEv'.n % Epoch = 0

\* C7: the update loop runs one broadcast at startup, which has returned before
\* the loop handles its first event; afterwards a broadcast starts exactly in the
\* steps that handle a chain-head event whose block number is a multiple of the
\* epoch length; downloader, start, stop and exit events start none.
C7_BroadcastTriggers ==
    /\ [](pc[Updater] # "start" => Len(bcasts) >= 1)
    /\ [](\A b \in 1..Len(bcasts) :
            bcasts[b].trigger = IF b = 1 THEN "startup" ELSE "epoch")
    /\ [](lastEv # NoEv => bcasts[1].ranged /\ bcasts[1].iter = {})
    /\ [][Len(bcasts') # Len(bcasts) =>
            /\ Len(bcasts') = Len(bcasts) + 1
            /\ \/ pc[Updater] = "start" /\ ~HandlesEvent
               \/ HandlesEpochBlock]_vars
    /\ [][HandlesEpochBlock =>
            (Len(bcasts') = Len(bcasts) + 1 /\ pc'[Updater] = "rv_check")]_vars

\* C7 witness: the loop handled downloader events and the non-epoch block 1
\* without a broadcast, and has started its second broadcast on the epoch block
C7_Witness ==
    /\ Len(bcasts) = 2
    /\ lastEv = [kind |-> "chainBlock", n |-> Epoch]
    /\ dlEventCh = "nil"
    /\ mining

\* ------------------------------------------------------------ proposal claims

\* C9: a proposal submitted after the deadline (the current block's timestamp
\* plus the slot period minus the finalize reserve) is rejected as too late
\* whatever its gas values are, the simulation engine is not called for it, and
\* nothing is pushed onto the block-building channel.
C9_LateRejectedUnsimulated ==
    /\ [](\A b \in Proposers :
            prop[b].arrival = "after" =>
                /\ prop[b].pc = "done"
                /\ prop[b].err = "too late"
                /\ prop[b].sim = 0
                /\ prop[b].pushed = 0)
    /\ [][\A b \in Proposers :
            (prop[b].pc = "idle" /\ prop'[b].arrival = "after") =>
                proposedCh' = proposedCh]_vars

\* C9 witness: two proposals submitted after the deadline, one with gasUsed
\* above the current gas limit and one within it with the expected gasLimit,
\* have both been rejected as too late
C9_Witness ==
    /\ prop["b1"].arrival = "after" /\ prop["b1"].err = "too late"
    /\ prop["b1"].gasUsed > currentGasLimit
    /\ prop["b2"].arrival = "after" /\ prop["b2"].err = "too late"
    /\ prop["b2"].gasUsed <= currentGasLimit
    /\ prop["b2"].gasLimit = CalcGasLimit(prevBlockGasLimit, GasCeil)

\* C10: at the gas pre-check a proposal with gasUsed equal to (or below) the
\* current gas limit goes on to the gas-limit consistency check, and one with
\* gasUsed above it is rejected with the "exceeds" error; no proposal rejected so
\* has had the simulation engine called or an envelope pushed.
C10_GasPreCheckBoundary ==
    /\ [][\A b \in Proposers :
            (prop[b].pc = "gas" /\ prop'[b] # prop[b]) =>
                IF prop[b].gasUsed > currentGasLimit
                THEN prop'[b].pc = "done" /\ prop'[b].err = "exceeds"
                ELSE prop'[b].pc = "limit" /\ prop'[b].err = ""]_vars
    /\ [](\A b \in Proposers :
            prop[b].err = "exceeds" =>
                prop[b].gasUsed > currentGasLimit /\ prop[b].sim = 0 /\ prop[b].pushed = 0)

\* C10 witness: a proposal with gasUsed equal to the current gas limit has
\* passed the pre-check and reached the simulation engine, and one with gasUsed
\* one above the limit has been rejected
C10_Witness ==
    /\ prop["b1"].gasUsed = currentGasLimit /\ prop["b1"].sim = 1
    /\ prop["b2"].gasUsed = currentGasLimit + 1 /\ prop["b2"].err = "exceeds"

\* the gas limit the validator expects of a proposal
DesiredGasLimit == CalcGasLimit(prevBlockGasLimit, GasCeil)

\* C11: a proposal whose declared gasLimit differs from the bounded adjustment
\* of the previous block's gas limit toward the configured ceiling is rejected:
\* the gas-limit check ends the call with the "mismatch" error, the simulation
\* engine is never called for the proposal and nothing is enqueued for it.
C11_GasLimitMismatchRejected ==
    /\ [][\A b \in Proposers :
            (prop[b].pc = "limit" /\ prop'[b] # prop[b]) =>
                IF prop[b].gasLimit # DesiredGasLimit
                THEN /\ prop'[b].pc = "done" /\ prop'[b].err = "mismatch"
                     /\ prop'[b].sim = 0
                     /\ proposedCh' = proposedCh
                ELSE prop'[b].pc = "sim" /\ prop'[b].sim = 1]_vars
    /\ [](\A b \in Proposers :
            (prop[b].pc # "idle" /\ prop[b].gasLimit # DesiredGasLimit) =>
                /\ prop[b].pc \notin {"sim", "handoff"}
                /\ prop[b].sim = 0
                /\ prop[b].pushed = 0
                /\ prop[b].pc = "done" => prop[b].err # "")

\* C11 witness: the previous block's gas limit is two below the ceiling, so the
\* bounded adjustment stops one below the ceiling; a timely proposal declaring
\* the ceiling itself has been rejected at the gas-limit check, and one
\* declaring the adjusted limit has reached the simulation engine
C11_Witness ==
    /\ prevBlockGasLimit = GasCeil - 2
    /\ DesiredGasLimit = GasCeil - 1
    /\ prop["b1"].gasLimit = GasCeil /\ prop["b1"].err = "mismatch"
    /\ prop["b1"].arrival = "before" /\ prop["b1"].gasUsed <= currentGasLimit
    /\ prop["b2"].gasLimit = GasCeil - 1 /\ prop["b2"].sim = 1

\* C12: when the simulation engine returns no result and no error the call
\* returns with a nil error and nothing is pushed; when the engine returns an
\* error the call returns a non-nil error and nothing is pushed.
C12_SimulationSkipAndError ==
    /\ [][\A b \in Proposers :
            (prop[b].pc = "sim" /\ prop'[b] # prop[b]) =>
                /\ proposedCh' = proposedCh
                /\ prop'[b].engine = "nil" =>
                       /\ prop'[b].pc = "done" /\ prop'[b].err = ""
                       /\ prop'[b].pushed = 0
                /\ prop'[b].engine \in {"err", "both"} =>
                       /\ prop'[b].pc = "done" /\ prop'[b].err # ""
                       /\ prop'[b].pushed = 0]_vars
    /\ [](\A b \in Proposers :
            prop[b].engine \in {"nil", "err", "both"} =>
                /\ prop[b].pc = "done"
                /\ prop[b].pushed = 0
                /\ prop[b].err = "" <=> prop[b].engine = "nil")

\* C12 witness: the engine has returned nil to one call, which ended without
\* an error, and an error to the other, which ended with one; the channel is
\* empty
C12_Witness ==
    /\ prop["b1"].engine = "nil" /\ prop["b1"].pc = "done" /\ prop["b1"].err = ""
    /\ prop["b2"].engine = "err" /\ prop["b2"].pc = "done"
    /\ prop["b2"].err = "simulate"
    /\ proposedCh = <<>>

BasicErrors ==
    {"missing block number", "missing parent hash", "missing gas limit",
     "missing gas value", "invalid builder fee",
     "gas value is lower than builder fee", "missing builder address",
     "wrong builder address format"}

BlockErrors == {"invalid block height", "invalid parent hash", "invalid txs"}

SignatureErrors == {"fail to verify signature", "invalid signature"}

\* what the specification asks of a bid's fields
StructurallyValid(m) ==
    /\ m.Block # 0
    /\ m.ParentHash # ""
    /\ m.GasLimit > 0
    /\ m.GasValue > 0
    /\ m.BuilderFeeValue >= 0
    /\ m.GasValue > m.BuilderFeeValue
    /\ IsHexAddress(m.BuilderAddress)

\* what the specification asks of a bid against the chain head
ChainConsistent(m, cur) ==
    /\ m.Block = cur + 1
    /\ m.ParentHash = HashHex(cur)
    /\ \A i \in 1..Len(m.Txs) : m.Txs[i] = "ok"

\* the signature recovers to the declared builder address
SignedByBuilder(args) ==
    /\ args.Signature.signer # <<>>
    /\ args.Signature.signer = HexToAddress(args.Message.BuilderAddress)

\* C14: the bid reaches the backend's Bid hook only after the builder-enabled
\* gate, the structural validation, the chain-consistency validation and the
\* signature validation have all passed, in that order; a bid that is rejected
\* returns the error of the first check that fails and the hook is not called
\* for it (nor for a call that ends in a panic).
C14_ForwardAfterFourChecks ==
    /\ [](LET m == bid.args.Message IN
          /\ bid.hook <= 1
          /\ (bid.pc = "forward" \/ bid.hook = 1) =>
                 /\ bid.enabled /\ ~bid.args.isNil
                 /\ StructurallyValid(m)
                 /\ ChainConsistent(m, bid.cur)
                 /\ bid.rlpOk /\ bid.args.Signature.hex
                 /\ SignedByBuilder(bid.args)
          /\ bid.pc = "panic" => bid.hook = 0
          /\ (bid.pc = "done" /\ bid.hook = 0) =>
                 IF ~bid.enabled THEN bid.err = "builder is not enabled"
                 ELSE IF ~StructurallyValid(m) THEN bid.err \in BasicErrors
                 ELSE IF ~ChainConsistent(m, bid.cur) THEN bid.err \in BlockErrors
                 ELSE /\ bid.err \in SignatureErrors
                      /\ ~(bid.rlpOk /\ SignedByBuilder(bid.args)))
    /\ [][/\ bid'.pc = "basic" => bid.pc = "enabled"
          /\ bid'.pc = "block" => bid.pc = "basic"
          /\ bid'.pc = "sig" => bid.pc = "block"
          /\ bid'.pc = "forward" => bid.pc = "sig"
          /\ bid'.hook > bid.hook => bid.pc = "forward"]_vars

\* C14 witness: a bid that is structurally valid and at the right height, but
\* names the wrong parent hash and is signed by another address, has been
\* rejected with the error of the chain-consistency check, the first to fail
C14_Witness ==
    /\ bid.pc = "done" /\ bid.hook = 0
    /\ bid.enabled
    /\ StructurallyValid(bid.args.Message)
    /\ bid.args.Message.Block = bid.cur + 1
    /\ bid.args.Message.ParentHash # HashHex(bid.cur)
    /\ bid.args.Signature.hex
    /\ ~SignedByBuilder(bid.args)
    /\ bid.err = "invalid parent hash"

\* C15: structural validation rejects a bid whose gasValue equals its
\* builderFeeValue, and any bid with gasValue <= builderFeeValue; a bid passes
\* it only if block != 0, the parent hash is not empty, gasLimit > 0,
\* gasValue > 0, builderFee >= 0, gasValue > builderFee and the builder address
\* is a well-formed hex address.
C15_StructuralValidation ==
    /\ [][(bid.pc = "basic" /\ ~bid.args.isNil /\ bid' # bid) =>
            LET m == bid.args.Message IN
            /\ bid'.pc = "block" <=> StructurallyValid(m)
            /\ ~StructurallyValid(m) =>
                   /\ bid'.pc = "done" /\ bid'.err \in BasicErrors
                   /\ bid'.hook = 0
            /\ m.GasValue <= m.BuilderFeeValue => bid'.pc = "done"]_vars
    /\ []((bid.pc \in {"block", "sig", "forward"} \/ bid.hook = 1) =>
            StructurallyValid(bid.args.Message))

\* C15 witness: a bid whose fields are all in order except that its gasValue
\* equals its builderFeeValue has been rejected by the structural validation
C15_Witness ==
    /\ bid.pc = "done" /\ bid.hook = 0
    /\ bid.args.Message.GasValue = 1
    /\ bid.args.Message.BuilderFeeValue = 1
    /\ bid.args.Message.GasLimit > 0
    /\ IsHexAddress(bid.args.Message.BuilderAddress)
    /\ bid.err = "gas value is lower than builder fee"

\* C16: with the signature oracle recovering an address from the message and
\* the signature, a bid whose recovered signer differs from the declared
\* builder address is rejected by the signature check and never forwarded; a
\* bid whose recovered signer equals the declared builder address passes it.
C16_SignerIsBuilder ==
    /\ [][(bid.pc = "sig" /\ bid' # bid /\ bid'.rlpOk /\ bid.args.Signature.hex
                          /\ bid.args.Signature.signer # <<>>) =>
            IF bid.args.Signature.signer
                   = HexToAddress(bid.args.Message.BuilderAddress)
            THEN bid'.pc = "forward"
            ELSE /\ bid'.pc = "done" /\ bid'.err = "invalid signature"
                 /\ bid'.hook = 0]_vars
    /\ [](bid.hook = 1 =>
            /\ SignedByBuilder(bid.args)
            /\ bid.fwd.builder = bid.args.Signature.signer)

\* C16 witness: a bid that passed the gate and both validations, declaring one
\* builder address and signed by the other, has been rejected as wrongly signed
C16_Witness ==
    /\ bid.pc = "done" /\ bid.hook = 0
    /\ bid.args.Message.BuilderAddress = <<"0", "x", "a", "1">>
    /\ bid.args.Signature.signer = <<"b", "2">>
    /\ bid.err = "invalid signature"

\* C17: for every bid input, including a bid with no message and a bid whose
\* signature is not valid hex, Bid ends with success or a returned error, never
\* in a panic.
C17_NeverPanics == bid.pc # "panic"

\* what the specification asks of a proposal against the chain head
Acceptable(in, cur) ==
    /\ Len(in.Payload) > 0
    /\ in.BlockNumber # 0
    /\ in.BlockNumber > cur
    /\ \A i \in 1..Len(in.Payload) : in.Payload[i] = "ok"

\* C18: ProposeBlock invokes the pipeline exactly once if the payload is not
\* empty, the block number is non-zero and strictly greater than the current
\* chain head and every transaction decodes; otherwise it returns an error and
\* the pipeline is not invoked. An error of the pipeline is returned with the
\* Internal status code.
C18_ProposeBlockInvokesOnce ==
    /\ grpcCall.pipeline <= 1
    /\ grpcCall.pc = "pipeline" => Acceptable(grpcCall.in, grpcCall.cur)
    /\ grpcCall.pc = "done" =>
           /\ grpcCall.handler = 1 =>
                  (grpcCall.pipeline = 1 <=> Acceptable(grpcCall.in, grpcCall.cur))
           /\ grpcCall.pipeline = 0 => grpcCall.err # "" /\ grpcCall.code = ""
           /\ grpcCall.pipeline = 1 =>
                  /\ grpcCall.err # "" <=> grpcCall.code = "Internal"
                  /\ grpcCall.err = "" <=> grpcCall.code = "OK"

\* C18 witness: a proposal one above the chain head was handed to the pipeline
\* once, the pipeline failed, and the call has returned with the Internal code
C18_Witness ==
    /\ grpcCall.pc = "done"
    /\ grpcCall.in.BlockNumber = grpcCall.cur + 1
    /\ grpcCall.pipeline = 1
    /\ grpcCall.err = "pipeline" /\ grpcCall.code = "Internal"

\* C19: if a secret is configured for the gRPC server, whatever the node ID,
\* the handler is invoked only for a call that carries the matching
\* authorization header.
C19_SecretProtects ==
    (api.secret # <<>> /\ grpcCall.handler > 0) =>
        /\ grpcCall.md.ok
        /\ grpcCall.md.authorization
               = <<encodeNodeSecret(api.nodeID, api.secret)>>

\* C20 as stated: a proposal is rejected as too late only when the current
\* time is strictly past the deadline.
C20_Orig ==
    \A b \in Proposers :
        prop[b].err = "too late" => prop[b].arrival = "after"

\* C20: a proposal is rejected as too late exactly when the current time has
\* reached the deadline (now >= deadline): one arriving at the deadline itself
\* is rejected by the window step, one arriving before it is not.
C20_TooLateFromDeadline ==
    \A b \in Proposers :
        prop[b].pc # "idle" =>
            /\ prop[b].err = "too late" <=> prop[b].arrival \in {"at", "after"}
            /\ prop[b].arrival = "before" => prop[b].ctxEnd > 0

\* C20 witness: a proposal arriving exactly at the deadline has been rejected
\* as too late, and one that arrived before it has passed the window step
C20_Witness ==
    /\ prop["b1"].arrival = "at" /\ prop["b1"].err = "too late"
    /\ prop["b1"].pc = "done"
    /\ prop["b2"].arrival = "before" /\ prop["b2"].pc = "gas"

\* ---------------------------------------------------------- behaviour claims

\* the engine has reported to every ProposedBlock call what the call holds as
\* its result simDuration
DurationKept ==
    \A b \in Proposers :
        prop[b].engine # "" => prop[b].simDuration = prop[b].elapsed

\* backend.ProposedBlock returns to the gRPC handler after the engine was
\* invoked for the proposal
LeavesSimulated ==
    /\ grpcCall.pc = "wait"
    /\ grpcCall'.pc = "done"
    /\ prop[GrpcProposer].engine # ""

\* C21 as stated: whenever the engine was invoked for a proposal, the caller
\* receives the simulation's elapsed duration whatever the outcome, both from
\* Miner.ProposedBlock and in the gRPC ProposeBlock response.
C21_Orig ==
    /\ []DurationKept
    /\ [][LeavesSimulated =>
            /\ ~grpcCall'.resp.isNil
            /\ grpcCall'.resp.SimulatedDuration = prop[GrpcProposer].elapsed]_vars

\* C21: whenever the engine was invoked for a proposal, Miner.ProposedBlock
\* returns the simulation's elapsed duration whatever the outcome; the gRPC
\* ProposeBlock response carries it when the pipeline returns no error
\* (success, skip), and when the pipeline returns an error (simulation error,
\* hand-off cancellation) the call returns no response, only the Internal
\* status.
C21_DurationReturned ==
    /\ []DurationKept
    /\ [][LeavesSimulated =>
            IF prop[GrpcProposer].err = ""
            THEN /\ ~grpcCall'.resp.isNil
                 /\ grpcCall'.resp.SimulatedDuration = prop[GrpcProposer].elapsed
                 /\ grpcCall'.code = "OK"
            ELSE /\ grpcCall'.resp.isNil
                 /\ grpcCall'.code = "Internal"
                 /\ grpcCall'.err = prop[GrpcProposer].err]_vars

\* C21 witness: the engine simulated a proposal of the gRPC caller and reported
\* a duration, the hand-off was cancelled, and ProposedBlock is about to return
\* the duration together with the error
C21_Witness ==
    /\ grpcCall.pc = "wait"
    /\ prop[GrpcProposer].pc = "done"
    /\ prop[GrpcProposer].err = "context"
    /\ prop[GrpcProposer].elapsed = 2
    /\ prop[GrpcProposer].simDuration = 2

\* C24: with the chain head advancing concurrently, no proposal reaches the
\* simulation whose block number is less than or equal to the head its deadline
\* was computed from.
C24_SingleHeadSnapshot ==
    (grpcCall.pc = "wait" /\ prop[GrpcProposer].sim = 1) =>
        grpcCall.in.BlockNumber > grpcCall.winHead

\* C22: assuming the engine returns once its context is cancelled, every
\* ProposedBlock call under way (with its deadline within the modelled time)
\* eventually returns, even when the worker never drains the channel and other
\* proposals compete for it.
C22_EveryCallReturns ==
    \A b \in Proposers :
        (prop[b].pc \in {"gas", "limit", "sim", "handoff"}
             /\ prop[b].ctxEnd <= MaxTime)
            ~> (prop[b].pc = "done")

\* C22 witness: the channel is full and never drained, a second simulated
\* proposal waited at the hand-off past its deadline and has returned with the
\* cancellation error
C22_Witness ==
    /\ proposedCh = <<[by |-> "b1"]>>
    /\ prop["b2"].pc = "done" /\ prop["b2"].work
    /\ prop["b2"].err = "context"
    /\ now >= prop["b2"].ctxEnd

\* C23: every read of the live registry map made by Mapping() and
\* MappingGRPC(), the read of its size included, happens under the read lock:
\* the step that reads the size for make() is never taken while a writer holds
\* the write lock.
C23_ReadsUnderReadLock ==
    [][\A p \in Procs :
        (pc[p] # "M_rlock" /\ pc'[p] = "M_rlock") => mxW = NoProc]_vars

\* C25: a broadcast that chooses the gRPC transport, and so skips the legacy
\* relays, issues a gRPC registration call to at least one relay: the snapshot
\* it ranges over is not empty, even when RemoveGrpc runs between the size check
\* and the snapshot.
C25_GrpcBroadcastReachesARelay ==
    \A i \in 1..Len(bcasts) :
        (bcasts[i].pool = "grpc" /\ bcasts[i].ranged) => bcasts[i].keys # {}

\* C26: when AddRelay(r) dials successfully but its registration call fails,
\* AddRelay returns the call's error and leaves the legacy pool as Add left it,
\* with r a member: the size of the pool counts r, a snapshot a broadcast takes
\* of the pool from then on holds r, and a Remove of a member returns nil and
\* takes it out.
C26_FailedCallKeepsRelay ==
    /\ [][\A t \in Managers :
            (pc[t] = "AddRelay_call" /\ pc'[t] = "idle" /\ ~ret'.called[1].ok) =>
                /\ ret'.op = "AddRelay" /\ ret'.err = "call"
                /\ clientMap' = clientMap
                /\ arg[t] \in Keys(clientMap')]_vars
    /\ []((ret.op = "AddRelay" /\ ret.err = "call") =>
            /\ ret.relay \in Keys(clientMap)
            /\ len(clientMap) >= 1
            /\ ret.relay \in member.rpc)
    /\ [][(pc[Updater] = "M_copy" /\ pc'[Updater] = "rv_range"
              /\ arg[Updater] = "rpc"
              /\ ret.op = "AddRelay" /\ ret.err = "call") =>
            ret.relay \in Keys(snap[Updater])]_vars
    /\ [][\A t \in Managers :
            (pc[t] = "Remove" /\ pc'[t] = "idle" /\ arg[t] \in Keys(clientMap)) =>
                /\ ret'.op = "Remove" /\ ret'.err = "nil"
                /\ arg[t] \notin Keys(clientMap')]_vars

\* C26 witness: the startup broadcast found the legacy pool empty; AddRelay then
\* dialed a relay and returned the error of its failed registration call; the
\* relay is the pool's one member and the broadcast of the next epoch has it in
\* its snapshot
C26_Witness ==
    /\ ret.op = "AddRelay" /\ ret.err = "call"
    /\ Keys(clientMap) = {ret.relay}
    /\ Len(bcasts) = 2
    /\ bcasts[1].ranged /\ bcasts[1].keys = {}
    /\ bcasts[2].pool = "rpc" /\ bcasts[2].ranged
    /\ bcasts[2].keys = {ret.relay}

====
